---- MODULE Spec2Model ----
(***************************************************************************)
(* The keyed state / diff / expiry engine of the ESP32 CAN monitor:        *)
(*   CanRX (main.cpp) keeps latestMessages / previousMessages and calls    *)
(*   WebInterface::recordChange, which keeps the byte-level change         *)
(*   history s_changeHistory; the HTTP handlers generateLatestRows,        *)
(*   generateIdListJson and generateFilteredRows read the maps and prune   *)
(*   the history.                                                          *)
(*                                                                         *)
(* Spec     : every handler runs to completion before the next one starts. *)
(* SpecConc : CanRX (loop task) and the HTTP handlers (async_tcp task)     *)
(*            interleave statement by statement; the code takes no lock.   *)
(***************************************************************************)
EXTENDS Integers, Sequences, FiniteSets, TLC

(***************************************************************************)
(* Program constants.                                                      *)
(***************************************************************************)
CHANGE_EXPIRATION_MS == 10000

MASK_SIZE == 8

\* Largest value of the 32-bit two's complement integers uint32_t values are held in.
INT32_MAX == 2147483647

(***************************************************************************)
(* Bounds of the model.                                                    *)
(***************************************************************************)
\* longest payload a received frame carries (the code allows up to 8)
MaxLen == 2

\* number of frames CanRX receives in a behaviour
MaxIngests == 3

\* number of times the millisecond clock is advanced between handlers
MaxTicks == 2

\* number of frames CanRX receives in a behaviour of SpecConc
MaxConcIngests == 2

\* longest "ids" parameter made of arbitrary characters
MaxRawLen == 4

\* most ids in an "ids" parameter made of written-out ids
MaxKeys == 3

\* CAN identifiers on the bus (0x123, 0x200)
Ids == {291, 512}

\* payload byte values
ByteValues == {0, 1}

\* amounts (ms) by which the clock advances between two handlers
TickSteps == {1, 10000}

\* a long time without a frame and without a request: 2^32 - 1 ms (49.7
\* days), whose 32-bit pattern is that of -1
IdleSteps == {-1}

\* milliseconds that pass inside CanRX between the CANMessage constructor's
\* millis() and recordChange's millis() when CanRX runs undisturbed
IngestDelays == {0}

\* characters of an arbitrary "ids" parameter: digits, a hexadecimal
\* letter, a letter that is no digit, the x of the prefix, the separator
\* and white space
RawAlphabet == {"0", "1", "f", "g", "x", ",", " "}

\* ids written out in an "ids" parameter: 0, 0x123, 0x200, 0xabc and
\* 0xffffffff (the pattern of -1)
KeySamples == {0, 291, 512, 2748, -1}

\* millis() when the first modelled handler runs: 10 s before the 32-bit
\* clock wraps (the pattern of 2^32 - 10000), so that times before the
\* wrap, the wrap itself and clock value 0 are all within MaxTicks steps
StartClocks == {-10000}

(***************************************************************************)
(* uint32_t arithmetic.  A uint32_t value v is held as the integer with    *)
(* the same 32-bit pattern in two's complement: v itself below 2^31,       *)
(* v - 2^32 from 2^31 on.  Add32 and Sub32 are + and - modulo 2^32 on      *)
(* patterns, ULt and UGt the unsigned order.                               *)
(***************************************************************************)
Add32(a, b) ==
    IF a >= 0 /\ b >= 0 /\ a > INT32_MAX - b
    THEN (a - INT32_MAX - 1) + (b - INT32_MAX - 1)
    ELSE IF a < 0 /\ b < 0 /\ a < (-INT32_MAX - 1) - b
    THEN (a + INT32_MAX + 1) + (b + INT32_MAX + 1)
    ELSE a + b

Sub32(a, b) ==
    IF a >= 0 /\ b < 0 /\ a > INT32_MAX + b
    THEN (a - INT32_MAX - 1) + ((-INT32_MAX - 1) - b)
    ELSE IF a < 0 /\ b >= 0 /\ a < (-INT32_MAX - 1) + b
    THEN (a + INT32_MAX + 1) + ((INT32_MAX - b) + 1)
    ELSE a - b

ULt(a, b) == IF (a >= 0) = (b >= 0) THEN a < b ELSE b < 0

UGt(a, b) == ULt(b, a)

ULe(a, b) == ~ULt(b, a)

(***************************************************************************)
(* std::map / std::unordered_map as functions whose domain is the key set. *)
(***************************************************************************)
EmptyMap == << >>

MapPut(m, k, v) == [x \in (DOMAIN m) \cup {k} |-> IF x = k THEN v ELSE m[x]]

MapErase(m, k) == [x \in (DOMAIN m) \ {k} |-> m[x]]

\* smallest element of a non-empty set of keys (std::map iterates in key order)
MinKey(S) == CHOOSE k \in S : \A j \in S : k <= j

(***************************************************************************)
(* CANMessage: data holds the first `length` bytes; the constructor copies *)
(* no more and no code reads data[i] for i >= length.  C index i is        *)
(* position i + 1 of the sequence.                                         *)
(***************************************************************************)
Payloads == UNION {[1..n -> ByteValues] : n \in 0..MaxLen}

CANMessage(ts, id, data) ==
    [timestamp |-> ts, id |-> id, length |-> Len(data), data |-> data]

Byte(m, i) == m.data[i + 1]

\* a pointer to a CANMessage: << >> is nullptr, <<m>> points to m
NullPtr == << >>

PtrTo(m) == <<m>>

(***************************************************************************)
(* Change history (anonymous namespace of web_interface.cpp).              *)
(***************************************************************************)
ChangeRecord(ts, i, old, new) ==
    [timestamp |-> ts, byteIndex |-> i, oldValue |-> old, newValue |-> new]

\* variant: a change expires already when its age reaches the window
ExpiredAtWindow(now, record) ==
    ~ULt(Sub32(now, record.timestamp), CHANGE_EXPIRATION_MS)

\* remove_if predicate of the three pruning loops
Expired(now, record) ==
    UGt(Sub32(now, record.timestamp), CHANGE_EXPIRATION_MS)

\* variant: only the first expired record is erased
RECURSIVE RemoveFirstExpired(_, _)
RemoveFirstExpired(history, now) ==
    IF history = << >>
    THEN << >>
    ELSE IF Expired(now, Head(history))
    THEN Tail(history)
    ELSE <<Head(history)>> \o RemoveFirstExpired(Tail(history), now)

\* history.erase(std::remove_if(...), history.end())
RemoveExpired(history, now) ==
    SelectSeq(history, LAMBDA record : ~Expired(now, record))

PruneHistoryForId(hist, id, now) ==
    IF id \notin DOMAIN hist
    THEN hist
    ELSE LET history == RemoveExpired(hist[id], now)
         IN  IF history = << >>
             THEN MapErase(hist, id)
             ELSE MapPut(hist, id, history)

\* variant: keys whose list became empty are not erased
PruneAllHistoryKeepEmpty(hist, now) ==
    [id \in DOMAIN hist |-> RemoveExpired(hist[id], now)]

PruneAllHistory(hist, now) ==
    LET kept == {id \in DOMAIN hist : RemoveExpired(hist[id], now) # << >>}
    IN  [id \in kept |-> RemoveExpired(hist[id], now)]

\* the loop `if (record.timestamp > lastChangeTimestamp) lastChangeTimestamp = ...`
RECURSIVE LastChangeLoop(_, _)
LastChangeLoop(history, last) ==
    IF history = << >>
    THEN last
    ELSE LastChangeLoop(Tail(history),
                        IF UGt(Head(history).timestamp, last)
                        THEN Head(history).timestamp
                        ELSE last)

\* mask[record.byteIndex] = true for every record with byteIndex < mask.size()
MaskOf(history) ==
    [i \in 0..(MASK_SIZE - 1) |->
        \E n \in DOMAIN history :
            history[n].byteIndex < MASK_SIZE /\ history[n].byteIndex = i]

NoMask == [i \in 0..(MASK_SIZE - 1) |-> FALSE]

\* variant: the mask is built from the history as it was before pruning
CollectHighlightMaskUnpruned(hist, id, now) ==
    IF id \notin DOMAIN hist
    THEN [mask |-> NoMask, lastChangeTimestamp |-> 0, hist |-> hist]
    ELSE LET history == RemoveExpired(hist[id], now)
         IN  IF history = << >>
             THEN [mask |-> NoMask, lastChangeTimestamp |-> 0,
                   hist |-> MapErase(hist, id)]
             ELSE [mask |-> MaskOf(hist[id]),
                   lastChangeTimestamp |-> LastChangeLoop(history, 0),
                   hist |-> MapPut(hist, id, history)]

\* variant: the history of the id is erased once its mask has been built
CollectHighlightMaskErasing(hist, id, now) ==
    IF id \notin DOMAIN hist
    THEN [mask |-> NoMask, lastChangeTimestamp |-> 0, hist |-> hist]
    ELSE LET history == RemoveExpired(hist[id], now)
         IN  IF history = << >>
             THEN [mask |-> NoMask, lastChangeTimestamp |-> 0,
                   hist |-> MapErase(hist, id)]
             ELSE [mask |-> MaskOf(history),
                   lastChangeTimestamp |-> LastChangeLoop(history, 0),
                   hist |-> MapErase(hist, id)]

\* collectHighlightMask: the returned mask, the out-parameter
\* lastChangeTimestamp, and s_changeHistory as the call leaves it
CollectHighlightMask(hist, id, now) ==
    IF id \notin DOMAIN hist
    THEN [mask |-> NoMask, lastChangeTimestamp |-> 0, hist |-> hist]
    ELSE LET history == RemoveExpired(hist[id], now)
         IN  IF history = << >>
             THEN [mask |-> NoMask, lastChangeTimestamp |-> 0,
                   hist |-> MapErase(hist, id)]
             ELSE [mask |-> MaskOf(history),
                   lastChangeTimestamp |-> LastChangeLoop(history, 0),
                   hist |-> MapPut(hist, id, history)]

(***************************************************************************)
(* WebInterface::recordChange.  previous is a pointer (NullPtr or <<m>>).  *)
(***************************************************************************)
\* variant: a different length of the prior frame is not looked at
LengthChangedNullOnly(current, previous) ==
    previous = NullPtr

\* variant: only a shorter new frame counts as a change of length
LengthChangedShrinkOnly(current, previous) ==
    previous = NullPtr \/ previous[1].length > current.length

LengthChanged(current, previous) ==
    previous = NullPtr \/ previous[1].length # current.length

ValueChanged(current, previous, i) ==
    \/ previous = NullPtr
    \/ i >= previous[1].length
    \/ Byte(current, i) # Byte(previous[1], i)

\* variant: a byte without a prior byte is recorded with oldValue 0
OldValueZeroDefault(current, previous, i) ==
    IF previous # NullPtr /\ i < previous[1].length
    THEN Byte(previous[1], i)
    ELSE 0

OldValue(current, previous, i) ==
    IF previous # NullPtr /\ i < previous[1].length
    THEN Byte(previous[1], i)
    ELSE Byte(current, i)

\* variant: the first frame of an id records no change
NewRecordsSkipFirst(current, previous, now) ==
    IF previous = NullPtr
    THEN << >>
    ELSE LET all == [n \in 1..current.length |->
                        ChangeRecord(now, n - 1,
                                     OldValue(current, previous, n - 1),
                                     Byte(current, n - 1))]
         IN  SelectSeq(all, LAMBDA record :
                 \/ previous[1].length # current.length
                 \/ record.byteIndex >= previous[1].length
                 \/ Byte(current, record.byteIndex) # Byte(previous[1], record.byteIndex))

\* the records pushed to newRecords by the loop over i = 0 .. current.length - 1
NewRecords(current, previous, now) ==
    LET all == [n \in 1..current.length |->
                   ChangeRecord(now, n - 1,
                                OldValue(current, previous, n - 1),
                                Byte(current, n - 1))]
    IN  SelectSeq(all, LAMBDA record :
            \/ LengthChanged(current, previous)
            \/ ValueChanged(current, previous, record.byteIndex))

\* variant: the whole history is pruned before the records are appended
RecordChangePruneAll(hist, current, previous, now) ==
    LET pruned == PruneAllHistory(hist, now)
        newRecords == NewRecords(current, previous, now)
    IN  IF newRecords # << >>
        THEN MapPut(pruned, current.id,
                    (IF current.id \in DOMAIN pruned
                     THEN pruned[current.id] ELSE << >>) \o newRecords)
        ELSE pruned

RecordChange(hist, current, previous, now) ==
    LET pruned == PruneHistoryForId(hist, current.id, now)
        newRecords == NewRecords(current, previous, now)
    IN  IF newRecords # << >>
        THEN MapPut(pruned, current.id,
                    (IF current.id \in DOMAIN pruned
                     THEN pruned[current.id] ELSE << >>) \o newRecords)
        ELSE pruned

(***************************************************************************)
(* Row generation of the HTTP handlers.  A row is the data the handler     *)
(* renders into one <tr>: id, length, the bytes with their highlight flag, *)
(* the RX time and the age; mask and lastChangeTimestamp are the values    *)
(* collectHighlightMask returned for the row.                              *)
(***************************************************************************)
\* variant: the highlight is the mask bit alone, without the comparison
\* with the previous frame
HighlightByteMaskOnly(msg, prevMap, mask, i) ==
    IF i < MASK_SIZE THEN mask[i] ELSE FALSE

\* the highlight flag of byte i, shared by generateLatestRows and
\* generateFilteredRows
HighlightByte(msg, prevMap, mask, i) ==
    LET highlight == IF i < MASK_SIZE THEN mask[i] ELSE FALSE
    IN  IF ~highlight /\ msg.id \in DOMAIN prevMap
        THEN \/ i >= prevMap[msg.id].length
             \/ Byte(msg, i) # Byte(prevMap[msg.id], i)
        ELSE highlight

MakeRow(msg, prevMap, summary, age) ==
    [id |-> msg.id,
     length |-> msg.length,
     data |-> msg.data,
     highlight |-> [n \in 1..msg.length |->
                       HighlightByte(msg, prevMap, summary.mask, n - 1)],
     timestamp |-> msg.timestamp,
     age |-> age,
     mask |-> summary.mask,
     lastChangeTimestamp |-> summary.lastChangeTimestamp]

\* variant: an id without a live change gets no row, and the age is taken
\* from the last change, as generateFilteredRows does
LatestRowStepLiveOnly(latest, prevMap, hist, id, now) ==
    LET summary == CollectHighlightMask(hist, id, now)
    IN  [rows |-> IF summary.lastChangeTimestamp = 0
                  THEN << >>
                  ELSE <<MakeRow(latest[id], prevMap, summary,
                                 Sub32(now, summary.lastChangeTimestamp))>>,
         hist |-> summary.hist]

\* one iteration of the loop of generateLatestRows, for the entry of key id
LatestRowStep(latest, prevMap, hist, id, now) ==
    LET summary == CollectHighlightMask(hist, id, now)
    IN  [rows |-> <<MakeRow(latest[id], prevMap, summary,
                            Sub32(now, latest[id].timestamp))>>,
         hist |-> summary.hist]

\* variant: the row shows the age of the frame, as generateLatestRows does
FilteredRowStepFrameAge(latest, prevMap, hist, filter, id, now) ==
    IF id \notin filter
    THEN [rows |-> << >>, hist |-> hist]
    ELSE LET summary == CollectHighlightMask(hist, id, now)
             age == Sub32(now, summary.lastChangeTimestamp)
         IN  IF summary.lastChangeTimestamp = 0 \/ UGt(age, CHANGE_EXPIRATION_MS)
             THEN [rows |-> << >>, hist |-> summary.hist]
             ELSE [rows |-> <<MakeRow(latest[id], prevMap, summary,
                                      Sub32(now, latest[id].timestamp))>>,
                   hist |-> summary.hist]

\* one iteration of the loop of generateFilteredRows, for the entry of key id
FilteredRowStep(latest, prevMap, hist, filter, id, now) ==
    IF id \notin filter
    THEN [rows |-> << >>, hist |-> hist]
    ELSE LET summary == CollectHighlightMask(hist, id, now)
             age == Sub32(now, summary.lastChangeTimestamp)
         IN  IF summary.lastChangeTimestamp = 0
             THEN [rows |-> << >>, hist |-> summary.hist]
             ELSE IF UGt(age, CHANGE_EXPIRATION_MS)
             THEN [rows |-> << >>, hist |-> summary.hist]
             ELSE [rows |-> <<MakeRow(latest[id], prevMap, summary, age)>>,
                   hist |-> summary.hist]

\* for (const auto& pair : *latestMessages): the keys in ascending order
RECURSIVE LatestRowsLoop(_, _, _, _, _)
LatestRowsLoop(todo, latest, prevMap, hist, now) ==
    IF todo = {}
    THEN [rows |-> << >>, hist |-> hist]
    ELSE LET id == MinKey(todo)
             this == LatestRowStep(latest, prevMap, hist, id, now)
             rest == LatestRowsLoop(todo \ {id}, latest, prevMap, this.hist, now)
         IN  [rows |-> this.rows \o rest.rows, hist |-> rest.hist]

RECURSIVE FilteredRowsLoop(_, _, _, _, _, _)
FilteredRowsLoop(todo, latest, prevMap, hist, filter, now) ==
    IF todo = {}
    THEN [rows |-> << >>, hist |-> hist]
    ELSE LET id == MinKey(todo)
             this == FilteredRowStep(latest, prevMap, hist, filter, id, now)
             rest == FilteredRowsLoop(todo \ {id}, latest, prevMap, this.hist,
                                      filter, now)
         IN  [rows |-> this.rows \o rest.rows, hist |-> rest.hist]

\* std::sort(ids.begin(), ids.end()) of a vector holding the keys of S
RECURSIVE SortedIds(_)
SortedIds(S) ==
    IF S = {} THEN << >> ELSE <<MinKey(S)>> \o SortedIds(S \ {MinKey(S)})

\* variant (the earlier generateIdListJson kept in src/unnamed/part_001):
\* only the keys of s_changeHistory that latestMessages knows
IdListKeysTracked(latest, hist) == {id \in DOMAIN hist : id \in DOMAIN latest}

\* the ids generateIdListJson collects before sorting: every key of
\* latestMessages, whatever the age of its changes
IdListKeys(latest, hist) == DOMAIN latest

(***************************************************************************)
(* Arduino String and the C library calls parseIdList and                  *)
(* generateIdListJson make.  A String is the sequence of its characters,   *)
(* each a string of length one; C position p is position p + 1 of the      *)
(* sequence.                                                               *)
(***************************************************************************)
\* Body applied to value, with value worked out once
With(value, Body(_)) == CHOOSE result \in {Body(v) : v \in {value}} : TRUE

LowerHex == <<"0", "1", "2", "3", "4", "5", "6", "7",
              "8", "9", "a", "b", "c", "d", "e", "f">>

UpperHex == <<"0", "1", "2", "3", "4", "5", "6", "7",
              "8", "9", "A", "B", "C", "D", "E", "F">>

\* toupper: the lower-case letters of the modelled inputs
ToUpper(c) ==
    IF \E n \in 11..16 : LowerHex[n] = c
    THEN UpperHex[CHOOSE n \in 11..16 : LowerHex[n] = c]
    ELSE IF c = "x" THEN "X"
    ELSE IF c = "g" THEN "G"
    ELSE c

\* String::toUpperCase
ToUpperCase(s) == [n \in DOMAIN s |-> ToUpper(s[n])]

\* isspace
IsSpace(c) == c = " "

\* String::indexOf(ch, fromIndex): -1 if ch is not found from fromIndex on
IndexOf(s, ch, fromIndex) ==
    IF \E p \in fromIndex..(Len(s) - 1) : s[p + 1] = ch
    THEN CHOOSE p \in fromIndex..(Len(s) - 1) :
             /\ s[p + 1] = ch
             /\ \A q \in fromIndex..(p - 1) : s[q + 1] # ch
    ELSE -1

\* String::substring(left, right) for left <= right
Substring(s, left, right) ==
    IF left >= Len(s)
    THEN << >>
    ELSE SubSeq(s, left + 1, IF right > Len(s) THEN Len(s) ELSE right)

\* String::trim: the characters from the first to the last that is not
\* white space
TrimLeft(s) ==
    IF \E p \in DOMAIN s : ~IsSpace(s[p])
    THEN SubSeq(s, CHOOSE p \in DOMAIN s :
                       /\ ~IsSpace(s[p])
                       /\ \A q \in 1..(p - 1) : IsSpace(s[q]),
                Len(s))
    ELSE << >>

TrimRight(s) ==
    IF \E p \in DOMAIN s : ~IsSpace(s[p])
    THEN SubSeq(s, 1, CHOOSE p \in DOMAIN s :
                          /\ ~IsSpace(s[p])
                          /\ \A q \in (p + 1)..Len(s) : IsSpace(s[q]))
    ELSE << >>

Trim(s) == With(TrimLeft(s), LAMBDA left : TrimRight(left))

\* String::startsWith("0X")
StartsWith0X(s) == Len(s) >= 2 /\ s[1] = "0" /\ s[2] = "X"

IsHexDigit(c) == \E n \in 1..16 : UpperHex[n] = c \/ LowerHex[n] = c

DigitValue(c) == (CHOOSE n \in 1..16 : UpperHex[n] = c \/ LowerHex[n] = c) - 1

\* the longest run of hexadecimal digits s starts with
HexRun(s) ==
    IF \E p \in DOMAIN s : ~IsHexDigit(s[p])
    THEN SubSeq(s, 1, (CHOOSE p \in DOMAIN s :
                           /\ ~IsHexDigit(s[p])
                           /\ \A q \in 1..(p - 1) : IsHexDigit(s[q])) - 1)
    ELSE s

DropLeadingZeros(s) ==
    IF \E p \in DOMAIN s : s[p] # "0"
    THEN SubSeq(s, CHOOSE p \in DOMAIN s :
                       /\ s[p] # "0"
                       /\ \A q \in 1..(p - 1) : s[q] = "0",
                Len(s))
    ELSE << >>

\* variant: the digits weighted as by strtoul(..., 10)
RECURSIVE Base10ValueUpTo(_, _)
Base10ValueUpTo(digits, n) ==
    IF n = 0
    THEN 0
    ELSE 10 * Base10ValueUpTo(digits, n - 1) + DigitValue(digits[n])

HexValueBase10(digits) == Base10ValueUpTo(digits, Len(digits))

\* the value of the first n of at most seven hexadecimal digits, as the
\* loop of strtoul accumulates it: acc = acc * 16 + digit
RECURSIVE HexValueUpTo(_, _)
HexValueUpTo(digits, n) ==
    IF n = 0
    THEN 0
    ELSE 16 * HexValueUpTo(digits, n - 1) + DigitValue(digits[n])

HexValue(digits) == HexValueUpTo(digits, Len(digits))

\* the unsigned long (32 bits) strtoul accumulates from a run of digits,
\* as its 32-bit pattern; ULONG_MAX when the value does not fit
ULongOfDigits(run) ==
    With(DropLeadingZeros(run), LAMBDA digits :
        IF Len(digits) > 8
        THEN -1
        ELSE IF Len(digits) = 8
        THEN LET top == DigitValue(Head(digits))
                 low == HexValue(Tail(digits))
             IN  IF top >= 8
                 THEN ((top - 16) * 268435456) + low
                 ELSE (top * 268435456) + low
        ELSE HexValue(digits))

\* strtoul(token, &endPtr, 16) for a token without sign: white space is
\* skipped, then an optional 0x / 0X in front of a digit, then the longest
\* run of digits is converted; converted is endPtr != token.c_str()
Strtoul16(token) ==
    With(TrimLeft(token), LAMBDA text :
        With(HexRun(IF Len(text) >= 3 /\ text[1] = "0" /\ text[2] \in {"x", "X"}
                          /\ IsHexDigit(text[3])
                    THEN SubSeq(text, 3, Len(text))
                    ELSE text),
             LAMBDA run :
                 [converted |-> run # << >>,
                  value |-> IF run # << >> THEN ULongOfDigits(run) ELSE 0]))

\* the tokens for which C libraries differ: strtoul given 0x / 0X without a
\* digit behind it converts the 0 by the C standard and nothing in some
\* libraries
StrtoulDiffers(token) ==
    LET text == TrimLeft(token)
    IN  /\ Len(text) >= 2
        /\ text[1] = "0"
        /\ text[2] \in {"x", "X"}
        /\ ~(Len(text) >= 3 /\ IsHexDigit(text[3]))

\* what one pass of the loop of parseIdList does with the token between
\* start and end: the ids with the value pushed, if any
ParseToken(vec, rawToken) ==
    With(Trim(rawToken), LAMBDA trimmed :
        With(ToUpperCase(trimmed), LAMBDA upper :
            With(Strtoul16(IF StartsWith0X(upper)
                           THEN Substring(upper, 2, Len(upper))
                           ELSE upper),
                 LAMBDA number :
                     IF Len(trimmed) > 0 /\ number.converted
                     THEN Append(vec, number.value)
                     ELSE vec)))

\* the scan position the loop of parseIdList stops the token at: the next
\* comma from start on, or the end of the string
TokenEnd(raw, from) ==
    LET found == IndexOf(raw, ",", from)
    IN  IF found = -1 THEN Len(raw) ELSE found

\* String(value, HEX): the digits of a uint32_t in base 16, lower case,
\* without leading zeros
RECURSIVE HexDigitsOf(_)
HexDigitsOf(n) ==
    IF n < 16
    THEN <<LowerHex[n + 1]>>
    ELSE Append(HexDigitsOf(n \div 16), LowerHex[(n % 16) + 1])

StringHex(value) ==
    IF value >= 0
    THEN HexDigitsOf(value)
    ELSE LET low == (value + INT32_MAX) + 1
         IN  <<LowerHex[9 + (low \div 268435456)]>>
                 \o SubSeq(HexDigitsOf(268435456 + (low % 268435456)), 2, 8)

\* the element generateIdListJson writes for an id, without the quotes
IdText(id) == <<"0", "x">> \o StringHex(id)

(***************************************************************************)
(* State.                                                                  *)
(***************************************************************************)
VARIABLES
    latestMessages,     \* std::map<uint32_t, CANMessage> latestMessages
    previousMessages,   \* std::map<uint32_t, CANMessage> previousMessages
    s_changeHistory,    \* unordered_map<uint32_t, vector<ChangeRecord>>
    clock,              \* what millis() returns
    ingests,            \* history: per id, the frames ingested so far, each
                        \* with the time recordChange stamped on its changes
    nTicks,             \* number of clock advances so far
    \* the loop task inside CanRX (SpecConc)
    wpc,                \* "idle", "received", "prevUpdated" or "recorded"
    wmsg,               \* CANMessage msg
    wprev,              \* const CANMessage* previousMessage
    wnow,               \* uint32_t now of recordChange
    \* the async_tcp task inside an HTTP handler (SpecConc)
    rpc,                \* "idle", "latest", "filtered" or "ids"
    rnow,               \* uint32_t currentTime / now of the handler
    rit,                \* key the iterator over *latestMessages points at
    rfilter,            \* std::set<uint32_t> filter of generateFilteredRows
    rrows,              \* the rows (or ids) produced so far; the response
                        \* once the handler has returned
    \* the /filtered_messages handler inside parseIdList (SpecParse)
    rawIds,             \* const String& rawIds, the "ids" parameter
    ppc,                \* "idle", "scanning" or "returned"
    start,              \* int start, the scan position
    ids,                \* std::vector<uint32_t> ids
    \* the boot of the device (SpecBoot)
    spc,                \* where the loop task is: "setup", "portal" (the
                        \* loop of startConfigPortal), "noConfig" (the blink
                        \* loop), "halted" (a while (1) of setup) or "loop"
    configMode,         \* bool configMode of checkConfigMode at this boot
    webInitialized,     \* WebInterface::initialize has returned true
    twaiInstalled,      \* twai_driver_install has returned ESP_OK
    twaiStarted,        \* twai_start has returned ESP_OK
    \* the /transmit_message route (SpecTransmit)
    transmitCallback,   \* WebInterface::transmitCallback: TRUE when it
                        \* points at transmitCanMessage, FALSE when nullptr
    tpc,                \* "idle", "body" (the body is in the buffer),
                        \* "handled" (the body handler has returned) or
                        \* "done" (the request handler has returned)
    bodyData,           \* uint8_t *data, the len bytes of the body
    txCalls,            \* history: the calls of the callback made for this
                        \* request, each with what it was given and returned
    sent,               \* history: the status of every request->send made
                        \* for this request, in order
    \* WebInterface::initialize connecting to the access point (SpecWifiFair)
    ipc,                \* "idle" (not called), "loopHead" (at the condition
                        \* of the while), "delay" (in its body), "check" (at
                        \* the if behind it) or "returned"
    retries,            \* uint8_t retries
    polls,              \* history: the calls of WiFi.status() so far
    polled,             \* history: the latest WiFi.status() was WL_CONNECTED
    wifiConnected,      \* the station is connected to the access point
    routes,             \* the paths registered with server.on
    serverBegun,        \* server.begin() has been called
    \* the configuration portal and persistent storage (SpecConfig)
    nvs,                \* Preferences "vcmaster": the strings stored under
                        \* "wifi_ssid" and "wifi_pass"
    saveResponse,       \* what the latest POST /save was answered: "none",
                        \* "success" or "error"
    saveParams,         \* history: the parameters of that request
    saveWrites,         \* history: which putString of that request stored
                        \* its value
    nvsBefore           \* history: nvs when that request arrived

task == <<wpc, wmsg, wprev, wnow, rpc, rnow, rit, rfilter, rrows>>

request == <<rawIds, ppc, start, ids>>

boot == <<spc, configMode, webInitialized, twaiInstalled, twaiStarted>>

transmit == <<transmitCallback, tpc, bodyData, txCalls, sent>>

wifi == <<ipc, retries, polls, polled, wifiConnected, routes, serverBegun>>

config == <<nvs, saveResponse, saveParams, saveWrites, nvsBefore>>

\* the routes and services outside the monitor's views
server == <<transmit, wifi, config>>

vars == <<latestMessages, previousMessages, s_changeHistory, clock,
          ingests, nTicks, task, request, boot, server>>

RECURSIVE SumLen(_, _)
SumLen(f, S) ==
    IF S = {} THEN 0
    ELSE LET k == MinKey(S) IN Len(f[k]) + SumLen(f, S \ {k})

NumIngests == SumLen(ingests, Ids)

\* no callback set (web_interface.cpp 368) and no transmit request under way
TransmitIdle ==
    /\ transmitCallback = FALSE
    /\ tpc = "idle"
    /\ bodyData = << >>
    /\ txCalls = << >>
    /\ sent = << >>

\* the paths WebInterface::initialize registers
Routes == {"/", "/latest_messages", "/filtered", "/filtered_ids",
           "/filtered_messages", "/transmit_message"}

\* WebInterface::initialize has not been called
WifiDown ==
    /\ ipc = "idle"
    /\ retries = 0
    /\ polls = 0
    /\ polled = FALSE
    /\ wifiConnected = FALSE
    /\ routes = {}
    /\ serverBegun = FALSE

\* WebInterface::initialize found the station connected at once and
\* returned true
WifiUp ==
    /\ ipc = "returned"
    /\ retries = 0
    /\ polls = 2
    /\ polled = TRUE
    /\ wifiConnected = TRUE
    /\ routes = Routes
    /\ serverBegun = TRUE

\* a request without parameters
NoParams == [ssid |-> NullPtr, password |-> NullPtr]

\* what Preferences holds: nothing on a new device, a configuration once
\* one has been saved
NoConfig == [wifi_ssid |-> << >>, wifi_pass |-> << >>]

SavedConfig == [wifi_ssid |-> <<"s">>, wifi_pass |-> <<"p">>]

\* no POST /save since power-on
SaveIdle ==
    /\ saveResponse = "none"
    /\ saveParams = NoParams
    /\ saveWrites = [ssid |-> FALSE, password |-> FALSE]
    /\ nvsBefore = nvs

\* loadConfig: both strings are read and neither is empty
LoadConfig(stored) ==
    Len(stored.wifi_ssid) > 0 /\ Len(stored.wifi_pass) > 0

ServerIdle == TransmitIdle /\ WifiUp /\ nvs = SavedConfig /\ SaveIdle

ServerOff ==
    TransmitIdle /\ WifiDown /\ nvs \in {NoConfig, SavedConfig} /\ SaveIdle

Init ==
    /\ latestMessages = EmptyMap
    /\ previousMessages = EmptyMap
    /\ s_changeHistory = EmptyMap
    /\ clock \in StartClocks
    /\ ingests = [id \in Ids |-> << >>]
    /\ nTicks = 0
    /\ wpc = "idle"
    /\ wmsg = NullPtr
    /\ wprev = NullPtr
    /\ wnow = 0
    /\ rpc = "idle"
    /\ rnow = 0
    /\ rit = 0
    /\ rfilter = {}
    /\ rrows = << >>
    /\ rawIds = << >>
    /\ ppc = "idle"
    /\ start = 0
    /\ ids = << >>
    /\ spc = "loop"
    /\ configMode = FALSE
    /\ webInitialized = TRUE
    /\ twaiInstalled = TRUE
    /\ twaiStarted = TRUE
    /\ ServerIdle

\* variant: an existing previous entry is kept instead of overwritten
UpdatePreviousKeepOldest(prevMap, latest, id) ==
    IF id \in DOMAIN latest
    THEN IF id \in DOMAIN prevMap THEN prevMap ELSE MapPut(prevMap, id, latest[id])
    ELSE MapErase(prevMap, id)

\* CanRX, "Update latest/previous messages maps": previousMessages as the
\* if / else on latestMessages.find(msg.id) leaves it
UpdatePrevious(prevMap, latest, id) ==
    IF id \in DOMAIN latest
    THEN MapPut(prevMap, id, latest[id])
    ELSE MapErase(prevMap, id)

\* variant: storing a frame drops the entries of the other ids
StoreLatestAlone(latest, msg) == [id \in {msg.id} |-> msg]

\* CanRX: latestMessages[msg.id] = msg
StoreLatest(latest, msg) == MapPut(latest, msg.id, msg)

\* the pointer previousMessage CanRX hands to recordChange
PreviousPointer(latest, id) ==
    IF id \in DOMAIN latest THEN PtrTo(latest[id]) ELSE NullPtr

\* time passes between two handlers
Tick(d) ==
    /\ nTicks < MaxTicks
    /\ clock' = Add32(clock, d)
    /\ nTicks' = nTicks + 1
    /\ UNCHANGED <<server, boot, request, latestMessages, previousMessages, s_changeHistory, ingests, task>>

\* CanRX with a frame received: the frame has identifier id and payload data;
\* delay ms pass between the CANMessage constructor and recordChange
CanRX(id, data, delay) ==
    LET msg == CANMessage(clock, id, data)
        previousMessage == PreviousPointer(latestMessages, id)
        now == Add32(clock, delay)
    IN  /\ NumIngests < MaxIngests
        /\ previousMessages' = UpdatePrevious(previousMessages, latestMessages, id)
        /\ s_changeHistory' = RecordChange(s_changeHistory, msg, previousMessage, now)
        /\ latestMessages' = StoreLatest(latestMessages, msg)
        /\ clock' = now
        /\ ingests' = [ingests EXCEPT ![id] = Append(@, [msg |-> msg, now |-> now])]
        /\ UNCHANGED <<server, boot, request, nTicks, task>>

GenerateLatestRows ==
    LET currentTime == clock
        result == LatestRowsLoop(DOMAIN latestMessages, latestMessages,
                                 previousMessages, s_changeHistory, currentTime)
    IN  /\ s_changeHistory' = result.hist
        /\ UNCHANGED <<server, boot, request, latestMessages, previousMessages, clock, ingests, nTicks, task>>

GenerateIdListJson ==
    LET now == clock
        pruned == PruneAllHistory(s_changeHistory, now)
    IN  /\ s_changeHistory' = pruned
        /\ UNCHANGED <<server, boot, request, latestMessages, previousMessages, clock, ingests, nTicks, task>>

\* ids is the vector parseIdList returned; filter the std::set built from it
GenerateFilteredRows(filter) ==
    LET currentTime == clock
        result == IF filter = {}
                  THEN [rows |-> << >>, hist |-> s_changeHistory]
                  ELSE FilteredRowsLoop(DOMAIN latestMessages, latestMessages,
                                        previousMessages, s_changeHistory,
                                        filter, currentTime)
    IN  /\ s_changeHistory' = result.hist
        /\ UNCHANGED <<server, boot, request, latestMessages, previousMessages, clock, ingests, nTicks, task>>

Next ==
    \/ \E d \in TickSteps : Tick(d)
    \/ \E id \in Ids, data \in Payloads, delay \in IngestDelays : CanRX(id, data, delay)
    \/ GenerateLatestRows
    \/ GenerateIdListJson
    \/ \E filter \in SUBSET Ids : GenerateFilteredRows(filter)

Spec == Init /\ [][Next]_vars

(***************************************************************************)
(* SpecIdle: the behaviours of Spec and those in which the device is left  *)
(* alone for so long that millis() comes round again.  In Spec less than   *)
(* 2^32 ms pass in a behaviour, so that differences of clock values are    *)
(* the real durations; in SpecIdle they are the durations modulo 2^32.     *)
(***************************************************************************)
NextIdle ==
    \/ Next
    \/ \E d \in IdleSteps : Tick(d)

SpecIdle == Init /\ [][NextIdle]_vars

(***************************************************************************)
(* SpecConc: the loop task runs CanRX and the async_tcp task runs the HTTP *)
(* handlers.  Neither takes a lock, so the steps below interleave freely;  *)
(* each step is one access to the shared maps.  The HTTP handlers run one  *)
(* after the other in the single async_tcp task.  When a handler returns   *)
(* its locals are gone: rnow, rit and rfilter are back at their initial    *)
(* values and rrows is the response.                                       *)
(***************************************************************************)
store == <<latestMessages, previousMessages, s_changeHistory>>

writer == <<wpc, wmsg, wprev, wnow>>

reader == <<rpc, rnow, rit, rfilter, rrows>>

\* end() of the iteration over *latestMessages (every id is above 0)
EndIt == 0

\* the key ++it reaches from key k, or begin() for k = EndIt
NextKey(latest, k) ==
    IF {j \in DOMAIN latest : j > k} = {}
    THEN EndIt
    ELSE MinKey({j \in DOMAIN latest : j > k})

\* history: the number of the ingest of id whose effect each structure shows
LatestVersion(id) == Len(ingests[id])

PreviousVersion(id) ==
    Len(ingests[id]) +
        (IF wpc \in {"prevUpdated", "recorded"} /\ wmsg[1].id = id THEN 1 ELSE 0)

LedgerVersion(id) ==
    Len(ingests[id]) + (IF wpc = "recorded" /\ wmsg[1].id = id THEN 1 ELSE 0)

\* the handler's step reads the entry of id: latestMessages[id],
\* previousMessages[id] and, in collectHighlightMask, s_changeHistory[id]
ReadsEntry(id) ==
    /\ rpc \in {"latest", "filtered"}
    /\ rit = id
    /\ rit' # rit
    /\ rpc = "filtered" => id \in rfilter

\* CanRX: twai_receive returned a frame and CANMessage msg(twai_msg) is built
RxReceive(id, data) ==
    /\ wpc = "idle"
    /\ NumIngests < MaxConcIngests
    /\ wpc' = "received"
    /\ wmsg' = PtrTo(CANMessage(clock, id, data))
    /\ UNCHANGED <<server, boot, request, store, clock, ingests, nTicks, wprev, wnow, reader>>

\* CanRX: the if / else that updates previousMessages and sets previousMessage
RxUpdatePrevious ==
    /\ wpc = "received"
    /\ wpc' = "prevUpdated"
    /\ previousMessages' = UpdatePrevious(previousMessages, latestMessages, wmsg[1].id)
    /\ wprev' = PreviousPointer(latestMessages, wmsg[1].id)
    /\ UNCHANGED <<server, boot, request, latestMessages, s_changeHistory, clock, ingests, nTicks,
                   wmsg, wnow, reader>>

\* CanRX: WebInterface::recordChange(msg, previousMessage)
RxRecordChange ==
    /\ wpc = "prevUpdated"
    /\ wpc' = "recorded"
    /\ wnow' = clock
    /\ s_changeHistory' = RecordChange(s_changeHistory, wmsg[1], wprev, clock)
    /\ UNCHANGED <<server, boot, request, latestMessages, previousMessages, clock, ingests, nTicks,
                   wmsg, wprev, reader>>

\* CanRX: latestMessages[msg.id] = msg
RxStoreLatest ==
    /\ wpc = "recorded"
    /\ wpc' = "idle"
    /\ latestMessages' = StoreLatest(latestMessages, wmsg[1])
    /\ ingests' = [ingests EXCEPT
                      ![wmsg[1].id] = Append(@, [msg |-> wmsg[1], now |-> wnow])]
    /\ wmsg' = NullPtr
    /\ wprev' = NullPtr
    /\ UNCHANGED <<server, boot, request, previousMessages, s_changeHistory, clock, nTicks, wnow, reader>>

\* generateLatestRows up to the first test of the loop
LatestBegin ==
    /\ rpc = "idle"
    /\ rit' = NextKey(latestMessages, EndIt)
    /\ rpc' = IF rit' = EndIt THEN "idle" ELSE "latest"
    /\ rnow' = IF rit' = EndIt THEN 0 ELSE clock
    /\ rfilter' = {}
    /\ rrows' = << >>
    /\ UNCHANGED <<server, boot, request, store, clock, ingests, nTicks, writer>>

\* one iteration of the loop of generateLatestRows, ++it included
LatestStep ==
    /\ rpc = "latest"
    /\ LET this == LatestRowStep(latestMessages, previousMessages,
                                 s_changeHistory, rit, rnow)
       IN  /\ s_changeHistory' = this.hist
           /\ rrows' = rrows \o this.rows
    /\ rit' = NextKey(latestMessages, rit)
    /\ rpc' = IF rit' = EndIt THEN "idle" ELSE "latest"
    /\ rnow' = IF rit' = EndIt THEN 0 ELSE rnow
    /\ UNCHANGED <<server, boot, request, latestMessages, previousMessages, clock, ingests, nTicks,
                   writer, rfilter>>

\* generateFilteredRows up to the first test of the loop
FilteredBegin(filter) ==
    /\ rpc = "idle"
    /\ rit' = IF filter = {} THEN EndIt ELSE NextKey(latestMessages, EndIt)
    /\ rpc' = IF rit' = EndIt THEN "idle" ELSE "filtered"
    /\ rnow' = IF rit' = EndIt THEN 0 ELSE clock
    /\ rfilter' = IF rit' = EndIt THEN {} ELSE filter
    /\ rrows' = << >>
    /\ UNCHANGED <<server, boot, request, store, clock, ingests, nTicks, writer>>

\* one iteration of the loop of generateFilteredRows, ++it included
FilteredStep ==
    /\ rpc = "filtered"
    /\ LET this == FilteredRowStep(latestMessages, previousMessages,
                                   s_changeHistory, rfilter, rit, rnow)
       IN  /\ s_changeHistory' = this.hist
           /\ rrows' = rrows \o this.rows
    /\ rit' = NextKey(latestMessages, rit)
    /\ rpc' = IF rit' = EndIt THEN "idle" ELSE "filtered"
    /\ rnow' = IF rit' = EndIt THEN 0 ELSE rnow
    /\ rfilter' = IF rit' = EndIt THEN {} ELSE rfilter
    /\ UNCHANGED <<server, boot, request, latestMessages, previousMessages, clock, ingests, nTicks, writer>>

\* generateIdListJson: now = millis(); pruneAllHistory(now)
IdListBegin ==
    /\ rpc = "idle"
    /\ rpc' = "ids"
    /\ rnow' = clock
    /\ s_changeHistory' = PruneAllHistory(s_changeHistory, clock)
    /\ rrows' = << >>
    /\ UNCHANGED <<server, boot, request, latestMessages, previousMessages, clock, ingests, nTicks,
                   writer, rit, rfilter>>

\* generateIdListJson: the ids are collected from *latestMessages and sorted
IdListCollect ==
    /\ rpc = "ids"
    /\ rpc' = "idle"
    /\ rrows' = SortedIds(IdListKeys(latestMessages, s_changeHistory))
    /\ rnow' = 0
    /\ UNCHANGED <<server, boot, request, store, clock, ingests, nTicks, writer, rit, rfilter>>

NextConc ==
    \/ \E d \in TickSteps : Tick(d)
    \/ \E id \in Ids, data \in Payloads : RxReceive(id, data)
    \/ RxUpdatePrevious
    \/ RxRecordChange
    \/ RxStoreLatest
    \/ LatestBegin
    \/ LatestStep
    \/ \E filter \in SUBSET Ids : FilteredBegin(filter)
    \/ FilteredStep
    \/ IdListBegin
    \/ IdListCollect

SpecConc == Init /\ [][NextConc]_vars

(***************************************************************************)
(* SpecParse: the "ids" parameter of a /filtered_messages request and the  *)
(* loop of parseIdList over it, one pass of the loop per step.  The        *)
(* parameter is any string of at most MaxRawLen characters of RawAlphabet, *)
(* or the ids of a list of at most MaxKeys of KeySamples written as        *)
(* generateIdListJson writes them and joined by commas.                    *)
(***************************************************************************)
\* the comma separated text of a list of ids
RECURSIVE JoinIds(_)
JoinIds(keys) ==
    IF keys = << >>
    THEN << >>
    ELSE IF Len(keys) = 1
    THEN IdText(keys[1])
    ELSE IdText(keys[1]) \o <<",">> \o JoinIds(Tail(keys))

KeyLists == UNION {[1..n -> KeySamples] : n \in 0..MaxKeys}

RawStrings == UNION {[1..n -> RawAlphabet] : n \in 0..MaxRawLen}

\* the substrings of raw between commas, from scan position from on
RECURSIVE TokensFrom(_, _)
TokensFrom(raw, from) ==
    IF from > Len(raw)
    THEN << >>
    ELSE <<Substring(raw, from, TokenEnd(raw, from))>>
             \o TokensFrom(raw, TokenEnd(raw, from) + 1)

\* the token as strtoul receives it
StrtoulArgument(rawToken) ==
    LET upper == ToUpperCase(Trim(rawToken))
    IN  IF StartsWith0X(upper) THEN Substring(upper, 2, Len(upper)) ELSE upper

RawInputs ==
    {raw \in RawStrings :
        \A n \in DOMAIN TokensFrom(raw, 0) :
            ~StrtoulDiffers(StrtoulArgument(TokensFrom(raw, 0)[n]))}
        \cup {JoinIds(keys) : keys \in KeyLists}

InitParse ==
    /\ latestMessages = EmptyMap
    /\ previousMessages = EmptyMap
    /\ s_changeHistory = EmptyMap
    /\ clock \in StartClocks
    /\ ingests = [id \in Ids |-> << >>]
    /\ nTicks = 0
    /\ wpc = "idle"
    /\ wmsg = NullPtr
    /\ wprev = NullPtr
    /\ wnow = 0
    /\ rpc = "idle"
    /\ rnow = 0
    /\ rit = 0
    /\ rfilter = {}
    /\ rrows = << >>
    /\ rawIds \in RawInputs
    /\ ppc = "idle"
    /\ start = 0
    /\ ids = << >>
    /\ spc = "loop"
    /\ configMode = FALSE
    /\ webInitialized = TRUE
    /\ twaiInstalled = TRUE
    /\ twaiStarted = TRUE
    /\ ServerIdle

\* variant: the scan resumes at the comma itself
NextStartAtComma(end) == end

\* start = end + 1
NextStart(end) == end + 1

\* parseIdList up to the loop: an empty string returns at once
ParseIdListBegin ==
    /\ ppc = "idle"
    /\ ppc' = IF Len(rawIds) = 0 THEN "returned" ELSE "scanning"
    /\ start' = 0
    /\ ids' = << >>
    /\ UNCHANGED <<server, boot, store, clock, ingests, nTicks, task, rawIds>>

\* one pass of while (start <= rawIds.length())
ParseIdListStep ==
    /\ ppc = "scanning"
    /\ start <= Len(rawIds)
    /\ \E end \in {TokenEnd(rawIds, start)} :
           /\ \E token \in {Substring(rawIds, start, end)} :
                  ids' = ParseToken(ids, token)
           /\ start' = NextStart(end)
    /\ UNCHANGED <<server, boot, store, clock, ingests, nTicks, task, rawIds, ppc>>

\* the loop condition fails: return ids
ParseIdListReturn ==
    /\ ppc = "scanning"
    /\ ~(start <= Len(rawIds))
    /\ ppc' = "returned"
    /\ UNCHANGED <<server, boot, store, clock, ingests, nTicks, task, rawIds, start, ids>>

NextParse ==
    \/ ParseIdListBegin
    \/ ParseIdListStep
    \/ ParseIdListReturn

SpecParse == InitParse /\ [][NextParse]_vars

\* the handler runs on: the async_tcp task is scheduled while it has work
SpecParseFair == SpecParse /\ WF_vars(NextParse)

\* variant: std::multiset::insert, which keeps equal elements
StdSetInsertEqual(elems, v) ==
    LET below == SelectSeq(elems, LAMBDA e : ULe(e, v))
        above == SelectSeq(elems, LAMBDA e : UGt(e, v))
    IN  below \o <<v>> \o above

\* std::set<uint32_t>::insert on the ascending sequence of the elements
StdSetInsert(elems, v) ==
    IF \E n \in DOMAIN elems : elems[n] = v
    THEN elems
    ELSE LET below == SelectSeq(elems, LAMBDA e : ULt(e, v))
             above == SelectSeq(elems, LAMBDA e : UGt(e, v))
         IN  below \o <<v>> \o above

\* std::set<uint32_t> filter(ids.begin(), ids.end()) of generateFilteredRows,
\* as the sequence an iteration over it yields
RECURSIVE StdSet(_)
StdSet(vec) ==
    IF vec = << >>
    THEN << >>
    ELSE StdSetInsert(StdSet(SubSeq(vec, 1, Len(vec) - 1)), vec[Len(vec)])

\* the elements of filter: what filter.find(id) != filter.end() tests
FilterOf(vec) == {StdSet(vec)[n] : n \in DOMAIN StdSet(vec)}

(***************************************************************************)
(* SpecBoot: the device from power-on.  setup() runs once in the loop      *)
(* task and either stays in one of its endless loops or returns, after     *)
(* which loop() calls CanRX for ever and the web server answers requests.  *)
(* A power cycle starts the device again.                                  *)
(***************************************************************************)
\* milliseconds of the delay in the loop of startConfigPortal
PORTAL_DELAY_MS == 10

\* variant: startConfigPortal returns and setup goes on
SetupOutcomePortalReturns(pressed, hasConfig, wifiOk, installOk, startOk) ==
    IF ~hasConfig
    THEN [pc |-> "noConfig", web |-> FALSE, installed |-> FALSE, started |-> FALSE]
    ELSE IF ~wifiOk
    THEN [pc |-> "halted", web |-> FALSE, installed |-> FALSE, started |-> FALSE]
    ELSE IF ~installOk
    THEN [pc |-> "halted", web |-> TRUE, installed |-> FALSE, started |-> FALSE]
    ELSE IF ~startOk
    THEN [pc |-> "halted", web |-> TRUE, installed |-> TRUE, started |-> FALSE]
    ELSE [pc |-> "loop", web |-> TRUE, installed |-> TRUE, started |-> TRUE]

\* where setup() ends up and what it has initialised by then: pressed is
\* checkConfigMode(), hasConfig is loadConfig(), wifiOk is
\* WebInterface::initialize(), installOk and startOk are the TWAI calls
SetupOutcome(pressed, hasConfig, wifiOk, installOk, startOk) ==
    IF pressed
    THEN [pc |-> "portal", web |-> FALSE, installed |-> FALSE, started |-> FALSE]
    ELSE IF ~hasConfig
    THEN [pc |-> "noConfig", web |-> FALSE, installed |-> FALSE, started |-> FALSE]
    ELSE IF ~wifiOk
    THEN [pc |-> "halted", web |-> FALSE, installed |-> FALSE, started |-> FALSE]
    ELSE IF ~installOk
    THEN [pc |-> "halted", web |-> TRUE, installed |-> FALSE, started |-> FALSE]
    ELSE IF ~startOk
    THEN [pc |-> "halted", web |-> TRUE, installed |-> TRUE, started |-> FALSE]
    ELSE [pc |-> "loop", web |-> TRUE, installed |-> TRUE, started |-> TRUE]

InitBoot ==
    /\ latestMessages = EmptyMap
    /\ previousMessages = EmptyMap
    /\ s_changeHistory = EmptyMap
    /\ clock \in StartClocks
    /\ ingests = [id \in Ids |-> << >>]
    /\ nTicks = 0
    /\ wpc = "idle"
    /\ wmsg = NullPtr
    /\ wprev = NullPtr
    /\ wnow = 0
    /\ rpc = "idle"
    /\ rnow = 0
    /\ rit = 0
    /\ rfilter = {}
    /\ rrows = << >>
    /\ rawIds = << >>
    /\ ppc = "idle"
    /\ start = 0
    /\ ids = << >>
    /\ spc = "setup"
    /\ configMode = FALSE
    /\ webInitialized = FALSE
    /\ twaiInstalled = FALSE
    /\ twaiStarted = FALSE
    /\ ServerOff

\* passes of the while of WebInterface::initialize
WIFI_RETRIES == 20

\* milliseconds of the delay in that loop
RETRY_DELAY_MS == 1000

\* WebInterface::initialize from call to return, with the station connected
\* from the first poll on (ok) or never
InitializeAtOnce(ok) ==
    /\ ipc' = "returned"
    /\ retries' = IF ok THEN 0 ELSE WIFI_RETRIES
    /\ polls' = IF ok THEN 2 ELSE WIFI_RETRIES + 2
    /\ polled' = ok
    /\ wifiConnected' = ok
    /\ routes' = IF ok THEN Routes ELSE {}
    /\ serverBegun' = ok

\* setup()
Setup(pressed, hasConfig, wifiOk, installOk, startOk) ==
    /\ spc = "setup"
    /\ hasConfig = LoadConfig(nvs)
    /\ configMode' = pressed
    /\ LET outcome == SetupOutcome(pressed, hasConfig, wifiOk, installOk, startOk)
       IN  /\ spc' = outcome.pc
           /\ webInitialized' = outcome.web
           /\ twaiInstalled' = outcome.installed
           /\ twaiStarted' = outcome.started
    /\ IF pressed \/ ~hasConfig
       THEN UNCHANGED wifi
       ELSE InitializeAtOnce(wifiOk)
    /\ UNCHANGED <<transmit, config, store, clock, ingests, nTicks, task, request>>

\* one pass of the while (true) of startConfigPortal
ConfigPortalStep ==
    /\ spc = "portal"
    /\ nTicks < MaxTicks
    /\ clock' = Add32(clock, PORTAL_DELAY_MS)
    /\ nTicks' = nTicks + 1
    /\ UNCHANGED <<server, store, ingests, task, request, boot>>

\* the device is switched off and on again: memory is lost
PowerCycle ==
    /\ spc # "setup"
    /\ latestMessages' = EmptyMap
    /\ previousMessages' = EmptyMap
    /\ s_changeHistory' = EmptyMap
    /\ clock' \in StartClocks
    /\ ingests' = [id \in Ids |-> << >>]
    /\ nTicks' = 0
    /\ wpc' = "idle"
    /\ wmsg' = NullPtr
    /\ wprev' = NullPtr
    /\ wnow' = 0
    /\ rpc' = "idle"
    /\ rnow' = 0
    /\ rit' = 0
    /\ rfilter' = {}
    /\ rrows' = << >>
    /\ spc' = "setup"
    /\ configMode' = FALSE
    /\ webInitialized' = FALSE
    /\ twaiInstalled' = FALSE
    /\ twaiStarted' = FALSE
    /\ ipc' = "idle"
    /\ retries' = 0
    /\ polls' = 0
    /\ polled' = FALSE
    /\ wifiConnected' = FALSE
    /\ routes' = {}
    /\ serverBegun' = FALSE
    /\ saveResponse' = "none"
    /\ saveParams' = NoParams
    /\ saveWrites' = [ssid |-> FALSE, password |-> FALSE]
    /\ nvsBefore' = nvs
    /\ UNCHANGED <<transmit, request, nvs>>

\* loop() and the HTTP handlers, once setup() has returned
Running == spc = "loop" /\ Next

NextBoot ==
    \/ \E pressed, hasConfig, wifiOk, installOk, startOk \in BOOLEAN :
           Setup(pressed, hasConfig, wifiOk, installOk, startOk)
    \/ ConfigPortalStep
    \/ PowerCycle
    \/ Running

SpecBoot == InitBoot /\ [][NextBoot]_vars

(***************************************************************************)
(* SpecWifiFair: one boot with WebInterface::initialize taken pass by     *)
(* pass.                                                                   *)
(* The station connects to and loses the access point on its own once      *)
(* WiFi.begin has been called; the loop task polls WiFi.status().          *)
(***************************************************************************)
\* bound on the polls a boot makes (never reached by the loop as written)
MaxPolls == 30

\* variant: the loop goes on until the station is connected
LoopGuardUnbounded(connected, count) == ~connected

\* while (WiFi.status() != WL_CONNECTED && retries < 20)
LoopGuard(connected, count) == ~connected /\ count < WIFI_RETRIES

\* setup() up to the call of WebInterface::initialize, which begins with
\* WiFi.begin and retries = 0
SetupCallsInitialize(pressed, hasConfig) ==
    /\ spc = "setup"
    /\ ipc = "idle"
    /\ hasConfig = LoadConfig(nvs)
    /\ configMode' = pressed
    /\ IF pressed \/ ~hasConfig
       THEN /\ spc' = SetupOutcome(pressed, hasConfig, FALSE, FALSE, FALSE).pc
            /\ UNCHANGED <<ipc, retries>>
       ELSE /\ ipc' = "loopHead"
            /\ retries' = 0
            /\ UNCHANGED spc
    /\ UNCHANGED <<webInitialized, twaiInstalled, twaiStarted>>
    /\ UNCHANGED <<polls, polled, wifiConnected, routes, serverBegun>>
    /\ UNCHANGED <<transmit, config, store, clock, ingests, nTicks, task, request>>

\* the station gets or loses its connection
WifiChange ==
    /\ ipc # "idle"
    /\ wifiConnected' = ~wifiConnected
    /\ UNCHANGED <<ipc, retries, polls, polled, routes, serverBegun>>
    /\ UNCHANGED <<transmit, config, boot, store, clock, ingests, nTicks, task, request>>

\* the condition of the while is evaluated
InitializePoll ==
    /\ ipc = "loopHead"
    /\ polls < MaxPolls
    /\ polls' = polls + 1
    /\ polled' = wifiConnected
    /\ ipc' = IF LoopGuard(wifiConnected, retries) THEN "delay" ELSE "check"
    /\ UNCHANGED <<retries, wifiConnected, routes, serverBegun>>
    /\ UNCHANGED <<transmit, config, boot, store, clock, ingests, nTicks, task, request>>

\* the body of the while: delay(1000), retries++
InitializeDelay ==
    /\ ipc = "delay"
    /\ clock' = Add32(clock, RETRY_DELAY_MS)
    /\ retries' = (retries + 1) % 256
    /\ ipc' = "loopHead"
    /\ UNCHANGED <<polls, polled, wifiConnected, routes, serverBegun>>
    /\ UNCHANGED <<transmit, config, boot, store, ingests, nTicks, task, request>>

\* the if behind the loop: return false, or register the routes, begin the
\* server and return true
InitializeCheck ==
    /\ ipc = "check"
    /\ polls < MaxPolls
    /\ polls' = polls + 1
    /\ polled' = wifiConnected
    /\ ipc' = "returned"
    /\ IF wifiConnected
       THEN /\ routes' = Routes
            /\ serverBegun' = TRUE
            /\ webInitialized' = TRUE
       ELSE UNCHANGED <<routes, serverBegun, webInitialized>>
    /\ UNCHANGED <<retries, wifiConnected>>
    /\ UNCHANGED <<spc, configMode, twaiInstalled, twaiStarted>>
    /\ UNCHANGED <<transmit, config, store, clock, ingests, nTicks, task, request>>

\* setup() from the return of WebInterface::initialize on
SetupAfterInitialize(installOk, startOk) ==
    /\ spc = "setup"
    /\ ipc = "returned"
    /\ LET outcome == SetupOutcome(FALSE, TRUE, webInitialized, installOk, startOk)
       IN  /\ spc' = outcome.pc
           /\ twaiInstalled' = outcome.installed
           /\ twaiStarted' = outcome.started
    /\ UNCHANGED <<configMode, webInitialized>>
    /\ UNCHANGED <<server, store, clock, ingests, nTicks, task, request>>

NextWifi ==
    \/ \E pressed, hasConfig \in BOOLEAN : SetupCallsInitialize(pressed, hasConfig)
    \/ WifiChange
    \/ InitializePoll
    \/ InitializeDelay
    \/ InitializeCheck
    \/ \E installOk, startOk \in BOOLEAN : SetupAfterInitialize(installOk, startOk)

\* the loop task is scheduled and delay returns
SpecWifiFair ==
    /\ InitBoot
    /\ [][NextWifi]_vars
    /\ WF_vars(InitializePoll \/ InitializeDelay \/ InitializeCheck)

(***************************************************************************)
(* SpecConfig: the configuration portal.  With the button pressed at boot  *)
(* setup() stays in startConfigPortal, whose web server answers POST /save *)
(* with handleConfigSave; what is saved outlives a power cycle.            *)
(***************************************************************************)
\* sizeof(config.ssid) and sizeof(config.password)
SSID_SIZE == 33

PASSWORD_SIZE == 65

\* n times the character c
Fill(c, n) == [k \in 1..n |-> c]

\* the values submitted: empty, short, the longest accepted and one longer
SsidValues == {Fill("s", n) : n \in {0, 1, SSID_SIZE - 1, SSID_SIZE}}

PasswordValues ==
    {Fill("p", n) : n \in {0, 1, PASSWORD_SIZE - 1, PASSWORD_SIZE}}

\* the POST parameters of a request: each one missing or present
SaveRequests ==
    [ssid : {NullPtr} \cup {PtrTo(v) : v \in SsidValues},
     password : {NullPtr} \cup {PtrTo(v) : v \in PasswordValues}]

\* request->hasParam(name, true)
HasParam(req, name) == req[name] # NullPtr

\* request->getParam(name, true)->value()
ParamValue(req, name) == req[name][1]

\* strncpy(dest, src, n) followed by dest[n] = '\0'
StrNCpy(src, n) == SubSeq(src, 1, IF Len(src) < n THEN Len(src) ELSE n)

\* handleConfigSave up to String response: valid, and config when valid
ReadConfig(req) ==
    IF /\ HasParam(req, "ssid")
       /\ HasParam(req, "password")
       /\ Len(ParamValue(req, "ssid")) < 33
       /\ Len(ParamValue(req, "password")) < 65
    THEN [valid |-> TRUE,
          ssid |-> StrNCpy(ParamValue(req, "ssid"), SSID_SIZE - 1),
          password |-> StrNCpy(ParamValue(req, "password"),
                               PASSWORD_SIZE - 1)]
    ELSE [valid |-> FALSE, ssid |-> << >>, password |-> << >>]

\* preferences.putString(key, value): the bytes written, 0 when the write
\* fails
PutString(stored, key, value, ok) ==
    [nvs |-> IF ok THEN [stored EXCEPT ![key] = value] ELSE stored,
     written |-> IF ok THEN Len(value) ELSE 0]

\* success &= written, a bool and a size_t: 1 & written
AndAssign(success, written) == success /\ written % 2 = 1

\* saveConfig: both strings are put and true is returned
SaveConfig(stored, ssid, password, ssidOk, passOk) ==
    LET first == PutString(stored, "wifi_ssid", ssid, ssidOk)
        second == PutString(first.nvs, "wifi_pass", password, passOk)
    IN  [nvs |-> second.nvs,
         success |-> AndAssign(AndAssign(TRUE, first.written),
                               second.written),
         returned |-> TRUE]

\* handleConfigSave
HandleConfigSave(req, ssidOk, passOk) ==
    /\ spc = "portal"
    /\ saveParams' = req
    /\ nvsBefore' = nvs
    /\ LET read == ReadConfig(req)
           saved == SaveConfig(nvs, read.ssid, read.password, ssidOk, passOk)
       IN  IF read.valid
           THEN /\ nvs' = saved.nvs
                /\ saveWrites' = [ssid |-> ssidOk, password |-> passOk]
                /\ saveResponse' = IF saved.returned THEN "success" ELSE "error"
           ELSE /\ UNCHANGED nvs
                /\ saveWrites' = [ssid |-> FALSE, password |-> FALSE]
                /\ saveResponse' = "error"
    /\ UNCHANGED <<transmit, wifi, boot, store, clock, ingests, nTicks, task, request>>

NextConfig ==
    \/ \E pressed, hasConfig, wifiOk, installOk, startOk \in BOOLEAN :
           Setup(pressed, hasConfig, wifiOk, installOk, startOk)
    \/ ConfigPortalStep
    \/ \E req \in SaveRequests, ssidOk, passOk \in BOOLEAN :
           HandleConfigSave(req, ssidOk, passOk)
    \/ PowerCycle

SpecConfig == InitBoot /\ [][NextConfig]_vars

(***************************************************************************)
(* SpecTransmit: the /transmit_message route.  A POST puts its body into   *)
(* the buffer of the server, the body handler registered for the route     *)
(* reads id, length and data out of it and calls the transmit callback,    *)
(* and the request handler registered for the same route runs once the     *)
(* body is complete.                                                       *)
(***************************************************************************)
\* String::indexOf(str, fromIndex): -1 if str does not occur from fromIndex
IndexOfString(s, pattern, fromIndex) ==
    LET At(p) == /\ p + Len(pattern) <= Len(s)
                 /\ \A n \in 1..Len(pattern) : s[p + n] = pattern[n]
    IN  IF \E p \in fromIndex..(Len(s) - 1) : At(p)
        THEN CHOOSE p \in fromIndex..(Len(s) - 1) :
                 /\ At(p)
                 /\ \A q \in fromIndex..(p - 1) : ~At(q)
        ELSE -1

\* String::substring(unsigned left, unsigned right) called with ints: a -1
\* arrives as UINT_MAX and is clipped to the length, and the ends are
\* swapped when left is beyond right
SubstringOf(s, left, right) ==
    LET clipped == IF right < 0 \/ right > Len(s) THEN Len(s) ELSE right
    IN  IF left > clipped
        THEN Substring(s, clipped, left)
        ELSE Substring(s, left, clipped)

\* uint8_t x = value
Uint8(value) == value % 256

\* the longest run of digits of the base s starts with
DigitRun(s, base) ==
    LET IsDigit(c) == IsHexDigit(c) /\ DigitValue(c) < base
    IN  IF \E p \in DOMAIN s : ~IsDigit(s[p])
        THEN SubSeq(s, 1, (CHOOSE p \in DOMAIN s :
                               /\ ~IsDigit(s[p])
                               /\ \A q \in 1..(p - 1) : IsDigit(s[q])) - 1)
        ELSE s

\* the value of the first n digits: acc = acc * base + digit
RECURSIVE DigitsValueUpTo(_, _, _)
DigitsValueUpTo(digits, n, base) ==
    IF n = 0
    THEN 0
    ELSE base * DigitsValueUpTo(digits, n - 1, base) + DigitValue(digits[n])

\* the digits behind an optional sign, and whether the sign is a minus
Unsigned(text) ==
    IF text # << >> /\ text[1] \in {"-", "+"} THEN Tail(text) ELSE text

\* atoi: white space, an optional sign, then the longest run of decimal
\* digits (0 when there is none)
Atoi(s) ==
    With(TrimLeft(s), LAMBDA text :
        With(DigitRun(Unsigned(text), 10), LAMBDA run :
            IF text # << >> /\ text[1] = "-"
            THEN 0 - DigitsValueUpTo(run, Len(run), 10)
            ELSE DigitsValueUpTo(run, Len(run), 10)))

\* strtoul(s, nullptr, 0): white space, an optional sign, then hexadecimal
\* digits behind 0x / 0X, octal digits behind a 0, decimal digits otherwise
StrtoulAuto(s) ==
    With(TrimLeft(s), LAMBDA signedText :
        With(Unsigned(signedText), LAMBDA text :
            With(IF /\ Len(text) >= 3
                    /\ text[1] = "0"
                    /\ text[2] \in {"x", "X"}
                    /\ IsHexDigit(text[3])
                 THEN [base |-> 16,
                       run |-> DigitRun(SubSeq(text, 3, Len(text)), 16)]
                 ELSE IF text # << >> /\ text[1] = "0"
                 THEN [base |-> 8, run |-> DigitRun(text, 8)]
                 ELSE [base |-> 10, run |-> DigitRun(text, 10)],
                 LAMBDA digits :
                     IF signedText # << >> /\ signedText[1] = "-"
                     THEN 0 - DigitsValueUpTo(digits.run, Len(digits.run),
                                              digits.base)
                     ELSE DigitsValueUpTo(digits.run, Len(digits.run),
                                          digits.base))))

\* the keys the body handler looks for
KeyId == <<"\"", "i", "d", "\"", ":", "\"">>

KeyLength == <<"\"", "l", "e", "n", "g", "t", "h", "\"", ":">>

KeyData == <<"\"", "d", "a", "t", "a", "\"", ":", "[">>

\* the while loop over dataStr: bytes is dataBytes[0 .. byteCount - 1]
RECURSIVE DataBytesLoop(_, _, _)
DataBytesLoop(dataStr, pos, bytes) ==
    IF pos < Len(dataStr) /\ Len(bytes) < 8
    THEN LET found == IndexOf(dataStr, ",", pos)
             commaPos == IF found = -1 THEN Len(dataStr) ELSE found
             byteStr == Trim(SubstringOf(dataStr, pos, commaPos))
         IN  DataBytesLoop(dataStr, commaPos + 1,
                           Append(bytes, Uint8(StrtoulAuto(byteStr))))
    ELSE bytes

\* what the body handler reads out of jsonBody
ParseTransmit(jsonBody) ==
    LET idStart == IndexOfString(jsonBody, KeyId, 0) + 6
        idEnd == IndexOf(jsonBody, "\"", idStart)
        idStr == SubstringOf(jsonBody, idStart, idEnd)
        lenStart == IndexOfString(jsonBody, KeyLength, 0) + 9
        lenComma == IndexOf(jsonBody, ",", lenStart)
        lenEnd == IF lenComma = -1
                  THEN IndexOf(jsonBody, "}", lenStart)
                  ELSE lenComma
        lenStr == SubstringOf(jsonBody, lenStart, lenEnd)
        dataStart == IndexOfString(jsonBody, KeyData, 0) + 8
        dataEnd == IndexOf(jsonBody, "]", dataStart)
        dataStr == SubstringOf(jsonBody, dataStart, dataEnd)
    IN  [id |-> Strtoul16(idStr).value,
         length |-> Uint8(Atoi(lenStr)),
         dataBytes |-> DataBytesLoop(dataStr, 0, << >>)]

\* if (transmitCallback && byteCount >= length)
CallbackGuard(callbackSet, byteCount, length) ==
    callbackSet /\ byteCount >= length

\* transmitCanMessage, given what twai_transmit returns
TransmitCanMessage(nBytes, twaiOk) ==
    IF nBytes > 8 THEN FALSE ELSE twaiOk

\* the bodies of the requests: the texts of the three members ...
IdTexts == { <<"1">>, <<"7", "f">> }

LengthTexts == { <<"0">>, <<"1">>, <<"2">>, <<"8">>, <<"9">>,
                 <<"-", "1">>, <<"2", "5", "6">>, <<"2", "5", "7">> }

DataTexts ==
    { << >>,
      <<"1">>,
      <<"1", ",", "2">>,
      <<"0", "x", "1", "0", ",", " ", "2", "5", "5">>,
      <<"3", "0", "0">>,
      <<"1", ",", "2", ",", "3", ",", "4", ",",
        "5", ",", "6", ",", "7", ",", "8">>,
      <<"1", ",", "2", ",", "3", ",", "4", ",",
        "5", ",", "6", ",", "7", ",", "8", ",", "9">> }

\* ... as JSON.stringify({id, length, data}) of the page lays them out,
JsonBody(idText, lengthText, dataText) ==
    <<"{">> \o KeyId \o idText \o <<"\"", ",">> \o KeyLength \o lengthText
        \o <<",">> \o KeyData \o dataText \o <<"]", "}">>

\* with the length last,
JsonBodyLengthLast(idText, lengthText, dataText) ==
    <<"{">> \o KeyId \o idText \o <<"\"", ",">> \o KeyData \o dataText
        \o <<"]", ",">> \o KeyLength \o lengthText \o <<"}">>

\* without a length
JsonBodyNoLength(idText, dataText) ==
    <<"{">> \o KeyId \o idText \o <<"\"", ",">> \o KeyData \o dataText
        \o <<"]", "}">>

\* and without data
JsonBodyNoData(idText, lengthText) ==
    <<"{">> \o KeyId \o idText \o <<"\"", ",">> \o KeyLength \o lengthText
        \o <<"}">>

Bodies ==
    UNION { {JsonBody(i, l, d), JsonBodyLengthLast(i, l, d),
             JsonBodyNoLength(i, d), JsonBodyNoData(i, l)} :
            <<i, l, d>> \in IdTexts \X LengthTexts \X DataTexts }

\* String((char *)data) reads up to the first NUL, and the len bytes of the
\* body are not followed by one: what lies behind them in the buffer
Overread == { << >>,
              <<",">> \o KeyData \o <<"7", "]", "}">> }

\* WebInterface::setTransmitCallback(transmitCanMessage)
SetTransmitCallback ==
    /\ tpc = "idle"
    /\ transmitCallback' = TRUE
    /\ UNCHANGED <<tpc, bodyData, txCalls, sent>>
    /\ UNCHANGED <<wifi, config, store, clock, ingests, nTicks, task, request, boot>>

\* a POST of /transmit_message arrives with its body
TransmitArrive(body) ==
    /\ tpc = "idle"
    /\ tpc' = "body"
    /\ bodyData' = body
    /\ txCalls' = << >>
    /\ sent' = << >>
    /\ UNCHANGED transmitCallback
    /\ UNCHANGED <<wifi, config, store, clock, ingests, nTicks, task, request, boot>>

\* the body handler of the route
TransmitOnBody(tail, twaiOk) ==
    /\ tpc = "body"
    /\ \E parsed \in {ParseTransmit(bodyData \o tail)} :
           IF CallbackGuard(transmitCallback, Len(parsed.dataBytes),
                            parsed.length)
           THEN \E returned \in {TransmitCanMessage(parsed.length, twaiOk)} :
                    /\ txCalls' = Append(txCalls,
                           [id |-> parsed.id,
                            length |-> parsed.length,
                            byteCount |-> Len(parsed.dataBytes),
                            returned |-> returned])
                    /\ sent' = Append(sent, IF returned THEN 200 ELSE 500)
           ELSE /\ sent' = Append(sent, 400)
                /\ UNCHANGED txCalls
    /\ tpc' = "handled"
    /\ UNCHANGED <<transmitCallback, bodyData>>
    /\ UNCHANGED <<wifi, config, store, clock, ingests, nTicks, task, request, boot>>

\* the request handler of the route, run when the body is complete
TransmitOnRequest ==
    /\ tpc = "handled"
    /\ sent' = Append(sent, 400)
    /\ tpc' = "done"
    /\ UNCHANGED <<transmitCallback, bodyData, txCalls>>
    /\ UNCHANGED <<wifi, config, store, clock, ingests, nTicks, task, request, boot>>

\* the request is over
TransmitEnd ==
    /\ tpc = "done"
    /\ tpc' = "idle"
    /\ bodyData' = << >>
    /\ txCalls' = << >>
    /\ sent' = << >>
    /\ UNCHANGED transmitCallback
    /\ UNCHANGED <<wifi, config, store, clock, ingests, nTicks, task, request, boot>>

NextTransmit ==
    \/ SetTransmitCallback
    \/ \E body \in Bodies : TransmitArrive(body)
    \/ \E tail \in Overread, twaiOk \in BOOLEAN : TransmitOnBody(tail, twaiOk)
    \/ TransmitOnRequest
    \/ TransmitEnd

SpecTransmit == Init /\ [][NextTransmit]_vars

(***************************************************************************)
(* What the handlers answer when called in the current state.              *)
(***************************************************************************)
\* the rows of generateLatestRows
LatestRows ==
    LatestRowsLoop(DOMAIN latestMessages, latestMessages, previousMessages,
                   s_changeHistory, clock).rows

\* the rows of generateFilteredRows for the id set filter
FilteredRows(filter) ==
    IF filter = {}
    THEN << >>
    ELSE FilteredRowsLoop(DOMAIN latestMessages, latestMessages,
                          previousMessages, s_changeHistory, filter, clock).rows

\* the ids of generateIdListJson, in the order of the JSON array
IdList ==
    SortedIds(IdListKeys(latestMessages, PruneAllHistory(s_changeHistory, clock)))

\* what collectHighlightMask(id, millis(), ...) returns
Summarize(id) == CollectHighlightMask(s_changeHistory, id, clock)

RowIds(rows) == {rows[n].id : n \in DOMAIN rows}

(***************************************************************************)
(* Vocabulary of the properties.                                           *)
(***************************************************************************)
\* number of frames ingested for id
Count(id) == Len(ingests[id])

\* the n-th frame ingested for id, and the time its changes were stamped with
Frame(id, n) == ingests[id][n].msg

StampedAt(id, n) == ingests[id][n].now

\* milliseconds from time t to the current clock value
Age(t) == Sub32(clock, t)

InWindow(t) == ULe(Age(t), CHANGE_EXPIRATION_MS)

\* byte indices below len where the payloads of two frames differ
DifferingIndices(a, b) ==
    {i \in 0..(a.length - 1) : i >= b.length \/ Byte(a, i) # Byte(b, i)}

MaskIndices(mask) == {i \in DOMAIN mask : mask[i]}

\* number of occurrences of e in the sequence s
Occurrences(s, e) == Cardinality({n \in DOMAIN s : s[n] = e})

EventsOf(hist, id) == IF id \in DOMAIN hist THEN hist[id] ELSE << >>

(***************************************************************************)
(* C1  Pairing invariant: for every id, latest is the frame ingested last, *)
(* previous is the frame ingested immediately before it, and previous is   *)
(* absent while the id has been ingested at most once.                     *)
(***************************************************************************)
C1_PairingInvariant ==
    \A id \in Ids :
        /\ Count(id) = 0 =>
               id \notin DOMAIN latestMessages /\ id \notin DOMAIN previousMessages
        /\ Count(id) >= 1 =>
               id \in DOMAIN latestMessages
               /\ latestMessages[id] = Frame(id, Count(id))
        /\ Count(id) = 1 => id \notin DOMAIN previousMessages
        /\ Count(id) >= 2 =>
               id \in DOMAIN previousMessages
               /\ previousMessages[id] = Frame(id, Count(id) - 1)

\* an id ingested three times with three different frames: previous is the
\* second, not the first
C1_Witness ==
    \E id \in Ids :
        /\ Count(id) = 3
        /\ Frame(id, 1).data # Frame(id, 2).data
        /\ Frame(id, 2).data # Frame(id, 3).data
        /\ previousMessages[id] = Frame(id, 2)
        /\ latestMessages[id] = Frame(id, 3)

(***************************************************************************)
(* C4  Scenario A generalised.  As claimed: an id ingested exactly twice   *)
(* with the same length, both ingests inside the retention window, has a   *)
(* collectHighlightMask mask that is true only where the payloads differ.  *)
(***************************************************************************)
C4_ScenarioA_AsClaimed ==
    \A id \in Ids :
        (/\ Count(id) = 2
         /\ Frame(id, 1).length = Frame(id, 2).length
         /\ InWindow(StampedAt(id, 1))
         /\ InWindow(StampedAt(id, 2)))
        => MaskIndices(Summarize(id).mask)
               \subseteq DifferingIndices(Frame(id, 2), Frame(id, 1))

(***************************************************************************)
(* C4 as amended: for an id ingested exactly twice with the same length,   *)
(* the second ingest inside the retention window: if the first ingest is   *)
(* inside the window too the mask is true at every index below the length  *)
(* (the first ingest, having no prior frame, recorded a change for every   *)
(* byte); if the first ingest has left the window the mask is true exactly *)
(* at the indices where the two payloads differ.                           *)
(***************************************************************************)
C4_ScenarioA_Amended ==
    \A id \in Ids :
        (/\ Count(id) = 2
         /\ Frame(id, 1).length = Frame(id, 2).length
         /\ InWindow(StampedAt(id, 2)))
        => MaskIndices(Summarize(id).mask) =
               IF InWindow(StampedAt(id, 1))
               THEN 0..(Frame(id, 2).length - 1)
               ELSE DifferingIndices(Frame(id, 2), Frame(id, 1))

\* two frames of length 2 that differ in byte 1 only, both in the window:
\* the mask covers byte 0 as well
C4_Witness ==
    \E id \in Ids :
        /\ Count(id) = 2
        /\ Frame(id, 1).length = 2 /\ Frame(id, 2).length = 2
        /\ DifferingIndices(Frame(id, 2), Frame(id, 1)) = {1}
        /\ InWindow(StampedAt(id, 1)) /\ InWindow(StampedAt(id, 2))
        /\ MaskIndices(Summarize(id).mask) = {0, 1}

(***************************************************************************)
(* C5  Scenario B generalised.  As claimed: after exactly one ingest for   *)
(* an id, previous is absent and generateFilteredRows returns no row for   *)
(* the id, for any id set containing it, although generateLatestRows       *)
(* lists the id.                                                           *)
(***************************************************************************)
C5_ScenarioB_AsClaimed ==
    \A id \in Ids :
        Count(id) = 1 =>
            /\ id \notin DOMAIN previousMessages
            /\ id \in RowIds(LatestRows)
            /\ \A filter \in SUBSET Ids :
                   id \in filter => id \notin RowIds(FilteredRows(filter))

(***************************************************************************)
(* C5 as amended: after exactly one ingest for an id, previous is absent   *)
(* and generateLatestRows lists the id; generateFilteredRows, for an id    *)
(* set containing the id, returns a row for it exactly while the change    *)
(* events of that first ingest (one per byte) are inside the retention     *)
(* window, the frame is not empty and the events were not stamped with     *)
(* clock value 0; otherwise it returns no row for the id.                  *)
(***************************************************************************)
C5_ScenarioB_Amended ==
    \A id \in Ids :
        Count(id) = 1 =>
            /\ id \notin DOMAIN previousMessages
            /\ id \in RowIds(LatestRows)
            /\ \A filter \in SUBSET Ids :
                   id \in filter =>
                       (id \in RowIds(FilteredRows(filter))
                        <=> /\ Frame(id, 1).length > 0
                            /\ InWindow(StampedAt(id, 1))
                            /\ StampedAt(id, 1) # 0)

\* one non-empty frame, some time ago but inside the window: the filtered
\* view shows it
C5_Witness ==
    \E id \in Ids :
        /\ Count(id) = 1
        /\ Frame(id, 1).length > 0
        /\ Age(StampedAt(id, 1)) > 0
        /\ id \notin DOMAIN previousMessages
        /\ id \in RowIds(FilteredRows({id}))

(***************************************************************************)
(* C6  trackedKeys.  As claimed: generateIdListJson returns, in ascending  *)
(* order, exactly the ids that have an unexpired change and an entry in    *)
(* latestMessages; an id whose changes have all expired is not listed.     *)
(***************************************************************************)
HasLiveChange(id) ==
    \E n \in DOMAIN EventsOf(s_changeHistory, id) :
        InWindow(EventsOf(s_changeHistory, id)[n].timestamp)

Ascending(list) == \A m, n \in DOMAIN list : m < n => list[m] < list[n]

SeqElems(list) == {list[n] : n \in DOMAIN list}

C6_TrackedKeys_AsClaimed ==
    /\ Ascending(IdList)
    /\ SeqElems(IdList) =
           {id \in DOMAIN latestMessages : HasLiveChange(id)}

(***************************************************************************)
(* C6 as amended: generateIdListJson returns, in ascending order, exactly  *)
(* the ids that have an entry in latestMessages (every id ingested so      *)
(* far), whether or not they have an unexpired change; an id whose changes *)
(* have all expired stays listed, while pruneAllHistory has removed its    *)
(* history entry.                                                          *)
(***************************************************************************)
C6_TrackedKeys_Amended ==
    /\ Ascending(IdList)
    /\ SeqElems(IdList) = {id \in Ids : Count(id) >= 1}
    /\ \A id \in Ids :
           ~HasLiveChange(id) =>
               id \notin DOMAIN PruneAllHistory(s_changeHistory, clock)

\* an id whose recorded changes are all older than the window is still listed
C6_Witness ==
    \E id \in Ids :
        /\ id \in DOMAIN s_changeHistory
        /\ ~HasLiveChange(id)
        /\ id \notin DOMAIN PruneAllHistory(s_changeHistory, clock)
        /\ id \in SeqElems(IdList)
        /\ Len(IdList) = 2

(***************************************************************************)
(* The step of the ledger an ingest of id makes: the events the history    *)
(* of id held before (pruned at the time of the ingest) and the events     *)
(* appended behind them.                                                   *)
(***************************************************************************)
Ingested(id) == ingests'[id] # ingests[id]

NewFrame(id) == ingests'[id][Len(ingests'[id])].msg

NewStamp(id) == ingests'[id][Len(ingests'[id])].now

KeptEvents(id) ==
    EventsOf(PruneHistoryForId(s_changeHistory, id, NewStamp(id)), id)

AppendedEvents(id) ==
    SubSeq(EventsOf(s_changeHistory', id), Len(KeptEvents(id)) + 1,
           Len(EventsOf(s_changeHistory', id)))

AppendsBehind(id) ==
    /\ Len(EventsOf(s_changeHistory', id)) >= Len(KeptEvents(id))
    /\ SubSeq(EventsOf(s_changeHistory', id), 1, Len(KeptEvents(id))) = KeptEvents(id)

\* the byte indices for which the rule of recordTransition asks for an event
RuleIndices(id) ==
    LET n == Len(ingests'[id])
        r == NewFrame(id)
    IN  {i \in 0..(r.length - 1) :
            \/ n = 1
            \/ ingests'[id][n - 1].msg.length # r.length
            \/ i >= ingests'[id][n - 1].msg.length
            \/ Byte(ingests'[id][n - 1].msg, i) # Byte(r, i)}

(***************************************************************************)
(* C7  recordTransition rule: an ingest of frame r with prior frame p      *)
(* appends one change event for byte i < r.length if and only if p is      *)
(* absent, or p.length # r.length, or i >= p.length, or the bytes at i     *)
(* differ; each appended event is stamped with the time of the ingest.     *)
(***************************************************************************)
C7_RecordTransitionRule ==
    [][\A id \in Ids :
          Ingested(id) =>
              /\ AppendsBehind(id)
              /\ Len(AppendedEvents(id)) = Cardinality(RuleIndices(id))
              /\ {AppendedEvents(id)[m].byteIndex : m \in DOMAIN AppendedEvents(id)}
                     = RuleIndices(id)
              /\ \A m \in DOMAIN AppendedEvents(id) :
                     AppendedEvents(id)[m].timestamp = NewStamp(id)
      ]_vars

\* <<0, 0>> then, later, <<0, 1>>: one event of the second ingest, for byte 1;
\* and a third frame equal to the second has appended nothing
C7_Witness ==
    \E id \in Ids :
        /\ Count(id) = 3
        /\ Frame(id, 1).data = <<0, 0>>
        /\ Frame(id, 2).data = <<0, 1>>
        /\ Frame(id, 3).data = <<0, 1>>
        /\ StampedAt(id, 1) # StampedAt(id, 2)
        /\ StampedAt(id, 2) # StampedAt(id, 3)
        /\ Len(EventsOf(s_changeHistory, id)) = 3
        /\ EventsOf(s_changeHistory, id)[3] =
               ChangeRecord(StampedAt(id, 2), 1, 0, 1)

(***************************************************************************)
(* C8  Length-change full highlight: an ingest whose frame has a length    *)
(* different from the prior frame of the id appends a change event for     *)
(* every byte index 0 .. newLength - 1, in this order, also for bytes      *)
(* equal to the prior byte at that index.                                  *)
(***************************************************************************)
C8_LengthChangeFullHighlight ==
    [][\A id \in Ids :
          (/\ Ingested(id)
           /\ Len(ingests'[id]) >= 2
           /\ ingests'[id][Len(ingests'[id]) - 1].msg.length # NewFrame(id).length)
          => /\ AppendsBehind(id)
             /\ Len(AppendedEvents(id)) = NewFrame(id).length
             /\ \A m \in DOMAIN AppendedEvents(id) :
                    /\ AppendedEvents(id)[m].byteIndex = m - 1
                    /\ AppendedEvents(id)[m].timestamp = NewStamp(id)
      ]_vars

\* <<0>> then, later, <<0, 1>>: byte 0 is unchanged and has an event all the
\* same
C8_Witness ==
    \E id \in Ids :
        /\ Count(id) = 2
        /\ Frame(id, 1).data = <<0>>
        /\ Frame(id, 2).data = <<0, 1>>
        /\ StampedAt(id, 1) # StampedAt(id, 2)
        /\ EventsOf(s_changeHistory, id) =
               << ChangeRecord(StampedAt(id, 1), 0, 0, 0),
                  ChangeRecord(StampedAt(id, 2), 0, 0, 0),
                  ChangeRecord(StampedAt(id, 2), 1, 1, 1) >>

(***************************************************************************)
(* C9  Expiry: the event lists recordChange (pruneHistoryForId),           *)
(* collectHighlightMask and pruneAllHistory leave, when called at the      *)
(* current time now, hold no event with now - timestamp >                  *)
(* CHANGE_EXPIRATION_MS and still hold every event with now - timestamp <= *)
(* CHANGE_EXPIRATION_MS (an event aged exactly the window survives); the   *)
(* difference is the unsigned 32-bit one the code computes.                *)
(***************************************************************************)
NoExpiredLeft(hist, id) ==
    \A n \in DOMAIN EventsOf(hist, id) :
        ~UGt(Age(EventsOf(hist, id)[n].timestamp), CHANGE_EXPIRATION_MS)

FreshKept(hist, id) ==
    \A n \in DOMAIN EventsOf(s_changeHistory, id) :
        LET e == EventsOf(s_changeHistory, id)[n]
        IN  ULe(Age(e.timestamp), CHANGE_EXPIRATION_MS) =>
                Occurrences(EventsOf(hist, id), e)
                    >= Occurrences(EventsOf(s_changeHistory, id), e)

C9_Expiry ==
    \A id \in Ids :
        /\ NoExpiredLeft(PruneHistoryForId(s_changeHistory, id, clock), id)
        /\ FreshKept(PruneHistoryForId(s_changeHistory, id, clock), id)
        /\ NoExpiredLeft(Summarize(id).hist, id)
        /\ FreshKept(Summarize(id).hist, id)
        /\ NoExpiredLeft(PruneAllHistory(s_changeHistory, clock), id)
        /\ FreshKept(PruneAllHistory(s_changeHistory, clock), id)
        /\ \A data \in Payloads :
               LET after == RecordChange(s_changeHistory,
                                         CANMessage(clock, id, data),
                                         PreviousPointer(latestMessages, id),
                                         clock)
               IN  NoExpiredLeft(after, id) /\ FreshKept(after, id)

\* a history holding an event aged exactly the window and an event one
\* millisecond older: pruning drops the older one only
C9_Witness ==
    \E id \in Ids :
        \E m, n \in DOMAIN EventsOf(s_changeHistory, id) :
            /\ Age(EventsOf(s_changeHistory, id)[m].timestamp)
                   = CHANGE_EXPIRATION_MS + 1
            /\ Age(EventsOf(s_changeHistory, id)[n].timestamp)
                   = CHANGE_EXPIRATION_MS
            /\ Len(EventsOf(PruneAllHistory(s_changeHistory, clock), id)) >= 1
            /\ Len(EventsOf(PruneAllHistory(s_changeHistory, clock), id))
                   < Len(EventsOf(s_changeHistory, id))

(***************************************************************************)
(* C10  No empty ledger entries: every key of s_changeHistory has a        *)
(* non-empty event list; an empty or unchanged frame creates no entry and  *)
(* pruning that empties a list erases the key.                             *)
(***************************************************************************)
C10_NoEmptyLedgerEntries ==
    \A id \in DOMAIN s_changeHistory : s_changeHistory[id] # << >>

\* an id whose first frame recorded changes and whose history entry is gone
\* again, and an id whose only frame was empty
C10_Witness ==
    /\ \E id \in Ids :
           /\ Count(id) >= 1
           /\ Frame(id, 1).length > 0
           /\ id \notin DOMAIN s_changeHistory
    /\ \E id \in Ids :
           /\ Count(id) = 1
           /\ Frame(id, 1).length = 0
           /\ id \notin DOMAIN s_changeHistory

(***************************************************************************)
(* C2  Ingest atomicity towards readers: whenever a handler reads the      *)
(* entry of an id (its latest / previous frames and, through               *)
(* collectHighlightMask, its change history), the three show the effect of *)
(* the same ingests: never the pair of after an ingest with the history of *)
(* before it, or the reverse.                                              *)
(***************************************************************************)
C2_IngestAtomicToReaders ==
    [][\A id \in Ids :
          ReadsEntry(id) =>
              /\ LatestVersion(id) = LedgerVersion(id)
              /\ LatestVersion(id) = PreviousVersion(id)
      ]_vars

(***************************************************************************)
(* C3  Mutual exclusion: CanRX is never between its first and its last     *)
(* access to the maps and the history while an HTTP handler is inside its  *)
(* own access to them.                                                     *)
(***************************************************************************)
C3_MutualExclusion ==
    ~(wpc \in {"prevUpdated", "recorded"} /\ rpc # "idle")

(***************************************************************************)
(* Vocabulary of the properties about collectHighlightMask.                *)
(***************************************************************************)
\* the events of id that a prune at the current time leaves
Surviving(id) == RemoveExpired(EventsOf(s_changeHistory, id), clock)

Stamps(events) == {events[n].timestamp : n \in DOMAIN events}

ByteIndices(events) == {events[n].byteIndex : n \in DOMAIN events}

\* the largest of a non-empty set of uint32_t values
UMax(S) == CHOOSE t \in S : \A u \in S : ULe(u, t)

\* a caller of collectHighlightMask takes lastChangeTimestamp == 0 for
\* "there is no change" (generateFilteredRows)
HasLastChange(summary) == summary.lastChangeTimestamp # 0

(***************************************************************************)
(* C11  collectHighlightMask(id, now): if no event of the id survives the  *)
(* pruning the mask is all false and there is no last-change time;         *)
(* otherwise mask[i] is true exactly for the byte indices of the surviving *)
(* events, and the last-change time is present and is the maximum          *)
(* timestamp of the surviving events, whatever its value, 0 included.      *)
(***************************************************************************)
C11_Summarize ==
    \A id \in Ids :
        /\ Surviving(id) = << >> =>
               /\ Summarize(id).mask = NoMask
               /\ ~HasLastChange(Summarize(id))
        /\ Surviving(id) # << >> =>
               /\ MaskIndices(Summarize(id).mask) = ByteIndices(Surviving(id))
               /\ HasLastChange(Summarize(id))
               /\ Summarize(id).lastChangeTimestamp = UMax(Stamps(Surviving(id)))

(***************************************************************************)
(* C12  Monotonic pruning: while the events stored for an id stay the same *)
(* and time goes on, the events that survive a prune at the later time are *)
(* among those that survive a prune at the earlier time (an event once     *)
(* expired is never live again), and collectHighlightMask at the later     *)
(* time sets no mask bit without an unexpired event for that byte.         *)
(***************************************************************************)
SameEvents(id) == EventsOf(s_changeHistory', id) = EventsOf(s_changeHistory, id)

C12_MonotonicPruning ==
    [][\A id \in Ids :
          SameEvents(id) =>
              /\ \A n \in DOMAIN EventsOf(s_changeHistory, id) :
                     Expired(clock, EventsOf(s_changeHistory, id)[n])
                         => Expired(clock', EventsOf(s_changeHistory, id)[n])
              /\ \A i \in MaskIndices(CollectHighlightMask(s_changeHistory', id, clock').mask) :
                     \E n \in DOMAIN EventsOf(s_changeHistory, id) :
                         /\ EventsOf(s_changeHistory, id)[n].byteIndex = i
                         /\ ~Expired(clock, EventsOf(s_changeHistory, id)[n])
                         /\ ~Expired(clock', EventsOf(s_changeHistory, id)[n])
      ]_vars

(***************************************************************************)
(* C13  Pruning is idempotent: pruneHistoryForId, pruneAllHistory and the  *)
(* pruning of collectHighlightMask, applied a second time with the same    *)
(* now, leave s_changeHistory (keys and events) as the first application   *)
(* left it; now is the current time or a later one.                        *)
(***************************************************************************)
PruneTimes == {clock} \cup {Add32(clock, d) : d \in TickSteps}

C13_PruningIdempotent ==
    \A now \in PruneTimes :
        /\ PruneAllHistory(PruneAllHistory(s_changeHistory, now), now)
               = PruneAllHistory(s_changeHistory, now)
        /\ \A id \in Ids :
               /\ PruneHistoryForId(PruneHistoryForId(s_changeHistory, id, now), id, now)
                      = PruneHistoryForId(s_changeHistory, id, now)
               /\ CollectHighlightMask(
                      CollectHighlightMask(s_changeHistory, id, now).hist, id, now)
                      = CollectHighlightMask(s_changeHistory, id, now)

\* a history with two expired events and a live one, and a history whose
\* events have all expired: the first prune drops events and a key, the
\* second changes nothing
C13_Witness ==
    /\ \E id \in Ids :
           /\ Len(EventsOf(s_changeHistory, id)) >= 3
           /\ Len(Surviving(id)) >= 1
           /\ Len(Surviving(id)) + 2 <= Len(EventsOf(s_changeHistory, id))
           /\ PruneHistoryForId(PruneHistoryForId(s_changeHistory, id, clock), id, clock)
                  = PruneHistoryForId(s_changeHistory, id, clock)
    /\ \E id \in DOMAIN s_changeHistory :
           /\ Surviving(id) = << >>
           /\ id \notin DOMAIN PruneAllHistory(s_changeHistory, clock)
           /\ PruneAllHistory(PruneAllHistory(s_changeHistory, clock), clock)
                  = PruneAllHistory(s_changeHistory, clock)

(***************************************************************************)
(* C14  generateLatestRows returns one row for every id ingested so far,   *)
(* in ascending order of the ids, whether or not the id has a live change; *)
(* the row shows the latest frame of the id and its age is the current     *)
(* time minus the timestamp of that frame (0 at the time of the ingest).   *)
(***************************************************************************)
IngestedIds == {id \in Ids : Count(id) >= 1}

C14_SnapshotRows ==
    /\ Len(LatestRows) = Cardinality(IngestedIds)
    /\ RowIds(LatestRows) = IngestedIds
    /\ \A m, n \in DOMAIN LatestRows : m < n => LatestRows[m].id < LatestRows[n].id
    /\ \A n \in DOMAIN LatestRows :
           LET row == LatestRows[n]
               msg == Frame(row.id, Count(row.id))
           IN  /\ row.length = msg.length
               /\ row.data = msg.data
               /\ row.timestamp = msg.timestamp
               /\ row.age = Sub32(clock, msg.timestamp)

\* two ids: one whose changes have all expired, its row showing an age
\* above the window, and one ingested at the time of the query, of age 0
C14_Witness ==
    /\ Len(LatestRows) = 2
    /\ \E n \in DOMAIN LatestRows :
           /\ ~HasLiveChange(LatestRows[n].id)
           /\ LatestRows[n].length > 0
           /\ UGt(LatestRows[n].age, CHANGE_EXPIRATION_MS)
    /\ \E n \in DOMAIN LatestRows :
           /\ HasLiveChange(LatestRows[n].id)
           /\ LatestRows[n].age = 0

(***************************************************************************)
(* C15  The highlight of generateLatestRows is a union.  As claimed: byte  *)
(* i of the latest frame of an id is highlighted iff the mask of           *)
(* collectHighlightMask has bit i set, or previous is absent, or           *)
(* i >= previous.length, or the byte differs from previous; so an id       *)
(* ingested once keeps its bytes highlighted after its changes expired.    *)
(***************************************************************************)
DiffersFromPrevious(msg, i) ==
    \/ i >= previousMessages[msg.id].length
    \/ Byte(msg, i) # Byte(previousMessages[msg.id], i)

C15_HighlightUnion_AsClaimed ==
    \A n \in DOMAIN LatestRows :
        LET row == LatestRows[n]
            msg == latestMessages[row.id]
        IN  \A i \in 0..(row.length - 1) :
                row.highlight[i + 1] <=>
                    \/ Summarize(row.id).mask[i]
                    \/ row.id \notin DOMAIN previousMessages
                    \/ DiffersFromPrevious(msg, i)

(***************************************************************************)
(* C15 as amended: byte i of the latest frame of an id is highlighted iff  *)
(* the mask of collectHighlightMask has bit i set, or previous is present  *)
(* and i >= previous.length or the byte differs from previous.  An absent  *)
(* previous adds nothing: an id ingested once has its bytes highlighted    *)
(* exactly while the change events of that ingest are live.                *)
(***************************************************************************)
C15_HighlightUnion_Amended ==
    \A n \in DOMAIN LatestRows :
        LET row == LatestRows[n]
            msg == latestMessages[row.id]
        IN  /\ \A i \in 0..(row.length - 1) :
                   row.highlight[i + 1] <=>
                       \/ Summarize(row.id).mask[i]
                       \/ /\ row.id \in DOMAIN previousMessages
                          /\ DiffersFromPrevious(msg, i)
            /\ Count(row.id) = 1 =>
                   \A i \in 0..(row.length - 1) :
                       row.highlight[i + 1] <=> InWindow(StampedAt(row.id, 1))

\* an id ingested once whose changes have expired: no byte is highlighted;
\* and an id whose changes have expired too but whose latest frame differs
\* from the previous one in byte 1 only: byte 1 alone is highlighted
C15_Witness ==
    /\ \E n \in DOMAIN LatestRows :
           /\ Count(LatestRows[n].id) = 1
           /\ LatestRows[n].length = 2
           /\ ~HasLiveChange(LatestRows[n].id)
           /\ LatestRows[n].highlight = <<FALSE, FALSE>>
    /\ \E n \in DOMAIN LatestRows :
           /\ Count(LatestRows[n].id) = 2
           /\ LatestRows[n].length = 2
           /\ ~HasLiveChange(LatestRows[n].id)
           /\ LatestRows[n].highlight = <<FALSE, TRUE>>

(***************************************************************************)
(* C16  generateFilteredRows(ids) returns, in ascending order of the ids,  *)
(* exactly one row for each id that is in the filter, has an entry in      *)
(* latestMessages and has at least one unexpired change at the current     *)
(* time; ids that are unknown or without live change are left out.         *)
(***************************************************************************)
C16_FilteredRows ==
    \A filter \in SUBSET Ids :
        LET rows == FilteredRows(filter)
        IN  /\ RowIds(rows) =
                   {id \in filter : id \in DOMAIN latestMessages /\ HasLiveChange(id)}
            /\ Len(rows) = Cardinality(RowIds(rows))
            /\ \A m, n \in DOMAIN rows : m < n => rows[m].id < rows[n].id

(***************************************************************************)
(* C17  As claimed: every row of generateFilteredRows carries the field    *)
(* values of the generateLatestRows row of the same id at the same time:   *)
(* the same latest frame, the same highlight of each byte and the same     *)
(* age, the current time minus the timestamp of the latest frame.          *)
(***************************************************************************)
\* the row of generateLatestRows for id
LatestRowOf(id) == LatestRows[CHOOSE n \in DOMAIN LatestRows : LatestRows[n].id = id]

SameFrameAndHighlight(row, other) ==
    /\ row.id = other.id
    /\ row.length = other.length
    /\ row.data = other.data
    /\ row.timestamp = other.timestamp
    /\ row.highlight = other.highlight

C17_FilteredRowIsSnapshotRow_AsClaimed ==
    \A filter \in SUBSET Ids :
        \A n \in DOMAIN FilteredRows(filter) :
            LET row == FilteredRows(filter)[n]
            IN  /\ row.id \in RowIds(LatestRows)
                /\ SameFrameAndHighlight(row, LatestRowOf(row.id))
                /\ row.age = LatestRowOf(row.id).age
                /\ row.age = Sub32(clock, latestMessages[row.id].timestamp)

(***************************************************************************)
(* C17 as amended: every row of generateFilteredRows carries the latest    *)
(* frame and the highlight of each byte of the generateLatestRows row of   *)
(* the same id; its age is the current time minus lastChangeTimestamp, the *)
(* time collectHighlightMask reports for the id, which is at most the      *)
(* retention window and differs from the age of the generateLatestRows row *)
(* whenever the last change is not stamped with the latest frame's time.   *)
(***************************************************************************)
C17_FilteredRowIsSnapshotRow_Amended ==
    \A filter \in SUBSET Ids :
        \A n \in DOMAIN FilteredRows(filter) :
            LET row == FilteredRows(filter)[n]
            IN  /\ row.id \in RowIds(LatestRows)
                /\ SameFrameAndHighlight(row, LatestRowOf(row.id))
                /\ row.age = Sub32(clock, Summarize(row.id).lastChangeTimestamp)
                /\ ULe(row.age, CHANGE_EXPIRATION_MS)
                /\ (row.age = LatestRowOf(row.id).age
                       <=> Summarize(row.id).lastChangeTimestamp
                               = latestMessages[row.id].timestamp)

\* a frame of two bytes ingested and, 10000 ms later, ingested again
\* unchanged: the filtered row has age 10000, the generateLatestRows row,
\* with the same frame and highlight, age 0
C17_Witness ==
    \E id \in Ids :
        /\ Count(id) = 2
        /\ Frame(id, 1).data = Frame(id, 2).data
        /\ Len(FilteredRows({id})) = 1
        /\ FilteredRows({id})[1].highlight = <<TRUE, TRUE>>
        /\ SameFrameAndHighlight(FilteredRows({id})[1], LatestRowOf(id))
        /\ FilteredRows({id})[1].age = CHANGE_EXPIRATION_MS
        /\ LatestRowOf(id).age = 0

(***************************************************************************)
(* C18  No premature expiry under interleaving: no operation on the change *)
(* history (collectHighlightMask of a handler, recordChange of CanRX) is   *)
(* applied with a now that lies before the timestamp of an event stored    *)
(* for its id, and no step removes an event whose age by the clock,        *)
(* clock - timestamp, is still at most CHANGE_EXPIRATION_MS; this also     *)
(* when CanRX runs between a handler's read of millis() and its use.       *)
(* Both follow from the now values being applied in non-decreasing order.  *)
(***************************************************************************)
\* a is the clock value at, or less than 2^31 ms after, the clock value b
NotBefore(a, b) == Sub32(a, b) >= 0

\* the handler's step calls collectHighlightMask(rit, rnow, ...)
ReaderApplies == ReadsEntry(rit)

\* the step of CanRX is the call of recordChange, with now = millis()
WriterApplies == wpc = "prevUpdated" /\ wpc' = "recorded"

NowNotBeforeStored(id, now) ==
    \A n \in DOMAIN EventsOf(s_changeHistory, id) :
        NotBefore(now, EventsOf(s_changeHistory, id)[n].timestamp)

FreshEventsStay(id) ==
    \A n \in DOMAIN EventsOf(s_changeHistory, id) :
        LET e == EventsOf(s_changeHistory, id)[n]
        IN  InWindow(e.timestamp) =>
                Occurrences(EventsOf(s_changeHistory', id), e)
                    >= Occurrences(EventsOf(s_changeHistory, id), e)

C18_NoPrematureExpiry ==
    [][/\ ReaderApplies => NowNotBeforeStored(rit, rnow)
       /\ WriterApplies => NowNotBeforeStored(wmsg[1].id, clock)
       /\ \A id \in Ids : FreshEventsStay(id)
      ]_vars

(***************************************************************************)
(* C19  The keys of latestMessages only grow: an id that has a latest      *)
(* frame has one after every step, whatever ingests and queries follow,    *)
(* and an ingest gives its id a latest frame; so every id ingested so far  *)
(* has a latest frame in every later state.                                *)
(***************************************************************************)
C19_StoreKeysOnlyGrow ==
    [][\A id \in Ids :
          /\ id \in DOMAIN latestMessages => id \in DOMAIN latestMessages'
          /\ Ingested(id) => id \in DOMAIN latestMessages'
          /\ Len(ingests[id]) >= 1 => id \in DOMAIN latestMessages
      ]_vars

\* an id ingested once, whose changes expired and were pruned by a query
\* and after which two frames of the other id were ingested: its latest
\* frame is still the one ingested
C19_Witness ==
    \E id, other \in Ids :
        /\ id # other
        /\ Count(id) = 1
        /\ Count(other) = 2
        /\ Frame(id, 1).length > 0
        /\ UGt(Age(StampedAt(id, 1)), CHANGE_EXPIRATION_MS)
        /\ UGt(Frame(other, 1).timestamp, Frame(id, 1).timestamp)
        /\ id \notin DOMAIN s_changeHistory
        /\ latestMessages[id] = Frame(id, 1)

(***************************************************************************)
(* C20  Queries are read-only on the store: a step of generateLatestRows,  *)
(* generateIdListJson or generateFilteredRows leaves latestMessages and    *)
(* previousMessages as they are; in s_changeHistory it leaves the events   *)
(* of each id as they are or removes exactly the expired ones, erasing     *)
(* the key if none is left, and it adds no key.                            *)
(***************************************************************************)
\* a step of Spec that is neither an ingest nor the passing of time
QueryStep == ingests' = ingests /\ nTicks' = nTicks

C20_QueriesReadOnly ==
    [][QueryStep =>
          /\ latestMessages' = latestMessages
          /\ previousMessages' = previousMessages
          /\ clock' = clock
          /\ DOMAIN s_changeHistory' \subseteq DOMAIN s_changeHistory
          /\ \A id \in Ids :
                 \/ EventsOf(s_changeHistory', id) = EventsOf(s_changeHistory, id)
                 \/ EventsOf(s_changeHistory', id) = Surviving(id)
      ]_vars

\* an id ingested once with a non-empty frame whose history entry is gone
\* (only a query can have pruned it, after its changes expired), next to an
\* id with its latest and previous frames in place
C20_Witness ==
    \E id, other \in Ids :
        /\ Count(id) = 1
        /\ Frame(id, 1).length > 0
        /\ id \notin DOMAIN s_changeHistory
        /\ latestMessages[id] = Frame(id, 1)
        /\ id \notin DOMAIN previousMessages
        /\ Count(other) = 2
        /\ Frame(other, 1) # Frame(other, 2)
        /\ latestMessages[other] = Frame(other, 2)
        /\ previousMessages[other] = Frame(other, 1)

(***************************************************************************)
(* C21  Key independence: an ingest of a frame of id k leaves the latest   *)
(* frame, the previous frame and the events stored for every other id as   *)
(* they are.                                                               *)
(***************************************************************************)
EntryOf(map, id) == IF id \in DOMAIN map THEN <<map[id]>> ELSE << >>

C21_KeyIndependence ==
    [][\A k \in Ids :
          Ingested(k) =>
              \A id \in Ids \ {k} :
                  /\ EntryOf(latestMessages', id) = EntryOf(latestMessages, id)
                  /\ EntryOf(previousMessages', id) = EntryOf(previousMessages, id)
                  /\ EntryOf(s_changeHistory', id) = EntryOf(s_changeHistory, id)
      ]_vars

\* an id whose stored events had expired before a frame of the other id
\* was ingested: the events are still stored, next to the other id's
\* latest and previous frames
C21_Witness ==
    \E k, id \in Ids :
        /\ k # id
        /\ Count(id) = 1
        /\ Count(k) = 2
        /\ id \in DOMAIN s_changeHistory
        /\ UGt(Sub32(StampedAt(k, 2), StampedAt(id, 1)), CHANGE_EXPIRATION_MS)
        /\ s_changeHistory[id][1].timestamp = StampedAt(id, 1)
        /\ latestMessages[id] = Frame(id, 1)
        /\ k \in DOMAIN previousMessages
        /\ id \notin DOMAIN previousMessages

(***************************************************************************)
(* Vocabulary of the claims about the "ids" parameter.                     *)
(***************************************************************************)
Tokens == TokensFrom(rawIds, 0)

\* the token without surrounding white space and without its 0x prefix
Stripped(rawToken) == StrtoulArgument(rawToken)

\* a number in base 16: one to eight hexadecimal digits
WellFormed(rawToken) ==
    /\ Len(Stripped(rawToken)) \in 1..8
    /\ \A n \in DOMAIN Stripped(rawToken) : IsHexDigit(Stripped(rawToken)[n])

KeyOf(rawToken) == ULongOfDigits(Stripped(rawToken))

WellFormedKeys == {KeyOf(Tokens[n]) : n \in {m \in DOMAIN Tokens : WellFormed(Tokens[m])}}

Returned == ppc = "returned"

(***************************************************************************)
(* C22: parseIdList discards every malformed token (empty after trimming,  *)
(* or not a number in base 16 once the optional 0x prefix is stripped) and *)
(* returns the keys of all well-formed tokens of the same input: the ids   *)
(* returned are exactly the keys of the well-formed tokens.                *)
(***************************************************************************)
C22_MalformedDiscarded ==
    Returned => FilterOf(ids) = WellFormedKeys

(***************************************************************************)
(* C23: filter round trip.  For every list of keys, written as             *)
(* generateIdListJson writes them ("0x" and lower-case hexadecimal digits) *)
(* and joined with commas, parseIdList returns exactly the keys of the     *)
(* list, whatever their order and however often a key is named.            *)
(***************************************************************************)
C23_FilterRoundTrip ==
    \A keys \in KeyLists :
        Returned /\ rawIds = JoinIds(keys) =>
            /\ ids = keys
            /\ FilterOf(ids) = FilterOf(keys)

\* 0xffffffff named twice around 0x123, out of order, has been parsed
C23_Witness ==
    /\ Returned
    /\ rawIds = JoinIds(<<-1, 291, -1>>)
    /\ rawIds = <<"0", "x", "f", "f", "f", "f", "f", "f", "f", "f", ",",
                  "0", "x", "1", "2", "3", ",",
                  "0", "x", "f", "f", "f", "f", "f", "f", "f", "f">>
    /\ FilterOf(ids) = {-1, 291}

ScanAdvances == ppc = "scanning" /\ ppc' = "scanning" => start' > start

C26_ConfigModeAtBoot ==
    configMode =>
        /\ spc = "portal"
        /\ ~webInitialized
        /\ ~twaiInstalled
        /\ ~twaiStarted
        /\ NumIngests = 0
        /\ latestMessages = EmptyMap
        /\ previousMessages = EmptyMap
        /\ s_changeHistory = EmptyMap

\* the portal loop has run MaxTicks times since the button was read pressed
C26_Witness ==
    /\ configMode
    /\ spc = "portal"
    /\ nTicks = MaxTicks

(***************************************************************************)
(* C27: for every change event appended by an ingest, newValue is the byte *)
(* of the new frame at the event's index, and oldValue is the byte of the  *)
(* prior frame of the id at that index when there is a prior frame and it  *)
(* has that index; otherwise oldValue equals newValue.                     *)
(***************************************************************************)
C27_OldAndNewValue ==
    [][\A id \in Ids :
          Ingested(id) =>
              /\ AppendsBehind(id)
              /\ \A m \in DOMAIN AppendedEvents(id) :
                     LET event == AppendedEvents(id)[m]
                         n == Len(ingests'[id])
                     IN  /\ event.byteIndex < NewFrame(id).length
                         /\ event.newValue = Byte(NewFrame(id), event.byteIndex)
                         /\ event.oldValue =
                                IF /\ n >= 2
                                   /\ event.byteIndex < ingests'[id][n - 1].msg.length
                                THEN Byte(ingests'[id][n - 1].msg, event.byteIndex)
                                ELSE event.newValue
      ]_vars

\* <<1>> then <<0, 1>>: the first frame's byte is recorded as 1 -> 1, byte 0
\* of the second as 1 -> 0 and its byte 1, which the first frame lacks, as
\* 1 -> 1
C27_Witness ==
    \E id \in Ids :
        /\ Count(id) = 2
        /\ Frame(id, 1).data = <<1>>
        /\ Frame(id, 2).data = <<0, 1>>
        /\ EventsOf(s_changeHistory, id) =
               <<ChangeRecord(StampedAt(id, 1), 0, 1, 1),
                 ChangeRecord(StampedAt(id, 2), 0, 1, 0),
                 ChangeRecord(StampedAt(id, 2), 1, 1, 1)>>

(***************************************************************************)
(* C28: lazy pruning is unobservable.  The answers of generateLatestRows,  *)
(* generateIdListJson and generateFilteredRows are those the same handlers *)
(* give on a ledger that holds every change event ever recorded and is     *)
(* filtered by age only when it is asked, whatever ingests and requests    *)
(* (and hence prunings) came before.                                       *)
(***************************************************************************)
\* the events the first n ingests of id have recorded, none removed
RECURSIVE EventsRecorded(_, _)
EventsRecorded(id, n) ==
    IF n = 0
    THEN << >>
    ELSE EventsRecorded(id, n - 1)
             \o NewRecords(Frame(id, n),
                           IF n = 1 THEN NullPtr ELSE PtrTo(Frame(id, n - 1)),
                           StampedAt(id, n))

\* the ledger that never removes an event
UnprunedHistory ==
    [id \in {k \in Ids : EventsRecorded(k, Count(k)) # << >>} |->
        EventsRecorded(id, Count(id))]

C28_LazyPruningUnobservable ==
    /\ LatestRows =
           LatestRowsLoop(DOMAIN latestMessages, latestMessages,
                          previousMessages, UnprunedHistory, clock).rows
    /\ IdList =
           SortedIds(IdListKeys(latestMessages,
                                PruneAllHistory(UnprunedHistory, clock)))
    /\ \A filter \in (SUBSET Ids) \ {{}} :
           FilteredRows(filter) =
               FilteredRowsLoop(DOMAIN latestMessages, latestMessages,
                                previousMessages, UnprunedHistory, filter,
                                clock).rows
    /\ \A id \in Ids :
           Summarize(id).mask = CollectHighlightMask(UnprunedHistory, id, clock).mask

(***************************************************************************)
(* C29 as claimed: the tracked-ID list and the filtered view agree: the    *)
(* ids generateIdListJson returns are exactly the ids for which            *)
(* generateFilteredRows, asked at the same time for all known ids, returns *)
(* a row.                                                                  *)
(***************************************************************************)
KnownIds == DOMAIN latestMessages

C29_ListAndFilteredViewAgree_AsClaimed ==
    SeqElems(IdList) = RowIds(FilteredRows(KnownIds))

(***************************************************************************)
(* C29 as amended: generateIdListJson returns every known id, and the ids  *)
(* for which generateFilteredRows, asked at the same time for all known    *)
(* ids, returns a row are among them: they are known ids with an unexpired *)
(* change event.  A known id whose changes have all expired is listed and  *)
(* has no row.                                                             *)
(***************************************************************************)
C29_ListAndFilteredViewAgree_Amended ==
    /\ SeqElems(IdList) = KnownIds
    /\ RowIds(FilteredRows(KnownIds)) \subseteq SeqElems(IdList)
    /\ \A id \in SeqElems(IdList) :
           id \in RowIds(FilteredRows(KnownIds)) => HasLiveChange(id)

\* two ids are listed; one has a row, the other's changes have expired and it
\* has none
C29_Witness ==
    \E id, other \in Ids :
        /\ SeqElems(IdList) = {id, other}
        /\ RowIds(FilteredRows(KnownIds)) = {id}
        /\ other # id
        /\ Count(other) >= 1
        /\ Frame(other, Count(other)).length >= 1
        /\ ~HasLiveChange(other)

(***************************************************************************)
(* C30: ledger keys are known keys.  In every reachable state, the states  *)
(* between the steps of CanRX that a concurrently running handler can      *)
(* observe included, every id with an entry in s_changeHistory has an      *)
(* entry in latestMessages.                                                *)
(***************************************************************************)
C30_LedgerKeysAreKnownKeys ==
    DOMAIN s_changeHistory \subseteq DOMAIN latestMessages

(***************************************************************************)
(* C31: clock wraparound.  With the clock counting modulo 2^32, every      *)
(* change event recorded at most CHANGE_EXPIRATION_MS before the current   *)
(* time is still in the ledger after pruning, and collectHighlightMask     *)
(* reports as lastChangeTimestamp the timestamp of the most recently       *)
(* recorded surviving event, also when the clock wrapped between two       *)
(* surviving events or an event was recorded at clock value 0.             *)
(***************************************************************************)
\* every event ever recorded for id that is at most the window old is among
\* the events a prune at the current time leaves
RecentEventsRetained(id) ==
    \A n \in DOMAIN EventsOf(UnprunedHistory, id) :
        InWindow(EventsOf(UnprunedHistory, id)[n].timestamp) =>
            \E m \in DOMAIN Surviving(id) :
                Surviving(id)[m] = EventsOf(UnprunedHistory, id)[n]

\* the timestamp of the surviving event recorded last
MostRecentStamp(id) == Surviving(id)[Len(Surviving(id))].timestamp

C31_ClockWraparound ==
    \A id \in Ids :
        /\ RecentEventsRetained(id)
        /\ Surviving(id) # << >> =>
               Summarize(id).lastChangeTimestamp = MostRecentStamp(id)

(***************************************************************************)
(* C32  Transmit request safety: the callback is invoked only when one is  *)
(* set and the parsed length is at most the number of parsed data bytes,   *)
(* itself at most 8, so it never receives a length above 8 or one covering *)
(* unparsed bytes; and the request is answered 200 only when the callback  *)
(* returned true, 500 when it returned false and 400 otherwise.            *)
(***************************************************************************)
\* every call of the callback made for the request was safe
CallbackCallsSafe ==
    \A n \in DOMAIN txCalls :
        /\ transmitCallback
        /\ txCalls[n].length <= txCalls[n].byteCount
        /\ txCalls[n].byteCount <= 8
        /\ txCalls[n].length <= 8

\* the status the outcome of the callback calls for
ExpectedStatus ==
    IF txCalls = << >>
    THEN 400
    ELSE IF txCalls[Len(txCalls)].returned THEN 200 ELSE 500

\* the statuses sent for the request
Answers == {sent[n] : n \in DOMAIN sent}

InitializeFailed == ipc = "returned" /\ ~webInitialized

\* it returns true exactly when its last poll found the station connected
ReturnsLastPoll == ipc = "returned" => (webInitialized <=> polled)

\* a failed initialize leaves no route, no server and no CAN driver, and
\* setup() is at the call or in the while (1) behind it
FailureLeavesNothing ==
    InitializeFailed =>
        /\ routes = {}
        /\ ~serverBegun
        /\ ~twaiInstalled
        /\ ~twaiStarted
        /\ spc \in {"setup", "halted"}

\* once called, WebInterface::initialize returns
InitializeReturns == (ipc = "loopHead") ~> (ipc = "returned")

\* as claimed: at most 20 polls
C33_WifiRetryBounded_AsClaimed ==
    /\ [](polls <= WIFI_RETRIES /\ ReturnsLastPoll /\ FailureLeavesNothing)
    /\ InitializeReturns

\* amended: at most 20 passes of the loop (20 delays of one second), with
\* one poll in front of each pass, one that ends the loop and one behind it
C33_WifiRetryBounded_Amended ==
    /\ [](/\ retries <= WIFI_RETRIES
          /\ polls <= retries + 2
          /\ ReturnsLastPoll
          /\ FailureLeavesNothing)
    /\ InitializeReturns

\* the station never connected: 20 passes, 22 polls, false returned and
\* setup() in its while (1) without CAN driver
C33_Witness ==
    /\ InitializeFailed
    /\ retries = WIFI_RETRIES
    /\ polls = WIFI_RETRIES + 2
    /\ spc = "halted"
    /\ routes = {}
    /\ ~twaiInstalled

(***************************************************************************)
(* C34  Configuration save error reporting: POST /save is answered with    *)
(* the success message only when the submitted SSID (under 33 characters)  *)
(* and password (under 65 characters) were both written to persistent      *)
(* storage; when a parameter is missing or too long, or a write fails, it  *)
(* is answered with the error message; and a rejected input leaves the     *)
(* stored configuration unchanged.                                         *)
(***************************************************************************)
\* both parameters are there and short enough
Accepted(req) ==
    /\ HasParam(req, "ssid")
    /\ HasParam(req, "password")
    /\ Len(ParamValue(req, "ssid")) < SSID_SIZE
    /\ Len(ParamValue(req, "password")) < PASSWORD_SIZE

\* both writes of the latest request stored their value
BothWritten == saveWrites.ssid /\ saveWrites.password

\* persistent storage holds what the latest request submitted
StoredAsSubmitted ==
    /\ nvs.wifi_ssid = ParamValue(saveParams, "ssid")
    /\ nvs.wifi_pass = ParamValue(saveParams, "password")

C34_ConfigSaveErrorReporting ==
    saveResponse # "none" =>
        /\ saveResponse = "success" =>
               Accepted(saveParams) /\ BothWritten /\ StoredAsSubmitted
        /\ ~(Accepted(saveParams) /\ BothWritten) => saveResponse = "error"
        /\ ~Accepted(saveParams) => nvs = nvsBefore

====
